---- MODULE Spec2Model ----
(***************************************************************************)
(* A model of @keleran/orm: the Database Interface (Db.exec, Db.transact   *)
(* over a pg connection pool) and the Model.extend algorithm.              *)
(*                                                                         *)
(* SpecDb  : tasks (independent call chains) call Db.exec / Db.transact.   *)
(* SpecExt : a sequence of top-level Model.extend calls over a small heap. *)
(***************************************************************************)
EXTENDS Integers, Sequences, FiniteSets, TLC

\* ------------------------------------------------------------------ bounds
NumConns == 2
MaxStmts == 1
MaxNest == 1
MaxObjs == 8
MaxCalls == 2
MaxId == 2
MaxDepth == 3

\* the call chains that run; one chain runs exec or transact to completion
Tasks == {1}
Conns == 1..NumConns

VARIABLES
  pool,      \* pool[c]: 0 when connection c is idle, else the task that checked it out
  stack,     \* stack[t]: the frames of task t's call chain, innermost last
  ret,       \* ret[t]: the settled promise handed from a callee to its awaiting caller
  calls,     \* calls[t][k]: what is known of the k-th call (exec or transact) of task t
  trace,     \* trace[t]: acquire / query / result / release on connections, in order
  emitted,   \* emitted[t]: the execFinish events emitted by task t's exec calls
  listener,  \* the statement whose execFinish event makes the registered listener throw
  heap,      \* heap[o]: the model instance o: its class, foreign key and properties
  estack,    \* the frames of the running Model.extend call, innermost last
  eret,      \* the settled promise a recursive extend hands to its caller
  pending,   \* the extender invocations that have not settled yet
  elog,      \* what the running (or last) top-level extend call did, in order
  eres,      \* how the last top-level extend call settled
  ncalls,    \* the top-level extend calls made so far
  binding,   \* what the model class is bound to: a Db and a table, no Db, or no table
  columns,   \* whether the class has its list of columns (static columns)
  rows,      \* the rows of the model's table
  serial,    \* the next value of the table's id sequence
  objs,      \* objs[n]: the id and the color of the instance the caller holds as n
  life,      \* life[n]: constructed, persisted or deleted, by the operations on n
  last,      \* the last operation on the model: how it settled, what it executed
  latest,    \* latest[id]: the color of the most recent successful save() of that id
  onlyDefault, \* whether every operation so far was a successful save() with no mode
  target,    \* the value given to toSnakeCaseDeep
  converted, \* what toSnakeCaseDeep returned for it
  registry,  \* registry[class]: the static extenders of a class, own or inherited
  references, \* the foreign keys of the database, as getReferences finds them
  tables,    \* the ids stored in hats, and the hat ids the other tables refer to
  cached,    \* the classes that have their list of columns
  lop        \* the last operation of the link scenario: its input, result, statements

dbvars == <<pool, stack, ret, calls, trace, emitted, listener>>
extvars == <<heap, estack, eret, pending, elog, eres, ncalls>>

savevars == <<binding, columns, rows, serial, objs, life, last, latest, onlyDefault>>
keyvars == <<target, converted>>
linkvars == <<registry, references, tables, cached, lop>>

vars == <<pool, stack, ret, calls, trace, emitted, listener,
          heap, estack, eret, pending, elog, eres, ncalls,
          binding, columns, rows, serial, objs, life, last, latest, onlyDefault,
          target, converted,
          registry, references, tables, cached, lop>>

\* the parts of the state a specification does not use
NoDb ==
  /\ pool = <<>> /\ stack = <<>> /\ ret = <<>> /\ calls = <<>>
  /\ trace = <<>> /\ emitted = <<>>
NoExt ==
  /\ heap = <<>> /\ estack = <<>> /\ pending = {}
  /\ elog = <<>> /\ ncalls = 0
NoSave ==
  /\ binding = "bound" /\ columns = FALSE /\ rows = {} /\ serial = 1
  /\ objs = <<>> /\ life = <<>> /\ last = <<>> /\ latest = <<>> /\ onlyDefault = TRUE
NoLink ==
  /\ registry = <<>> /\ references = {} /\ tables = <<>> /\ cached = {} /\ lop = <<>>
\* a value: a scalar, an object of entries in insertion order, or an array
Node(t, kids) == [t |-> t, kids |-> kids]
Leaf(t) == Node(t, <<>>)
Entry(k, v) == [k |-> k, v |-> v]
NoKeys == target = Leaf("undefined") /\ converted = Leaf("undefined")

\* -------------------------------------------------------------- Db helpers
NoRet == [st |-> "none", v |-> "none"]
Resolved(v) == [st |-> "ok", v |-> v]
Rejected(v) == [st |-> "err", v |-> v]

\* the values given as the first argument of exec and to convertSpec
ExecArgKinds == {"string", "object", "null", "undefined", "number", "boolean"}

\* typeof value
TypeOf(value) == IF value = "null" THEN "object" ELSE value

\* convertSpec(spec): ARGUMENTS_INVALID unless typeof spec is 'object'; the keys
\* of the clone are then assigned, which throws for null
ConvertSpec(spec) ==
  IF TypeOf(spec) # "object" THEN "ARGUMENTS_INVALID"
  ELSE IF spec = "null" THEN "TypeError"
  ELSE "ok"

\* the error client.query rejects with for a statement
QueryError(stmt) ==
  CASE stmt = "BEGIN" -> "BeginFailed"
    [] stmt = "COMMIT" -> "CommitFailed"
    [] stmt = "ROLLBACK" -> "RollbackFailed"
    [] OTHER -> "QueryFailed"

Top(t) == stack[t][Len(stack[t])]
Pop(t) == SubSeq(stack[t], 1, Len(stack[t]) - 1)
SetTop(t, f) == [stack EXCEPT ![t] = Append(Pop(t), f)]
IdleConns == {c \in Conns : pool[c] = 0}
\* pool.connect() hands out an idle connection; idle connections are interchangeable
PoolConnect == CHOOSE c \in IdleConns : \A d \in IdleConns : c <= d

Frame(kind, call, pc, arg, stmt, ctxClient, depth) ==
  [kind |-> kind, call |-> call, pc |-> pc, arg |-> arg, stmt |-> stmt,
   ctxClient |-> ctxClient, client |-> ctxClient, depth |-> depth,
   saved |-> NoRet]

Call(kind, arg, stmt, ctxClient, parent, depth) ==
  [kind |-> kind, arg |-> arg, stmt |-> stmt, hadClient |-> ctxClient # 0, ctxClient |-> ctxClient,
   parent |-> parent, depth |-> depth, conn |-> 0,
   st |-> "running", v |-> "none", fnClient |-> 0, fn |-> NoRet]

Event(ev, call, conn, stmt, ok) ==
  [ev |-> ev, call |-> call, conn |-> conn, stmt |-> stmt, ok |-> ok]

ExecFinishData_early(ok) ==
  {"spec", "statement", "values", "ctx", "startedAt"}
    \cup (IF ok THEN {"result"} ELSE {"err"})

\* the keys of the execFinish record as exec builds it
ExecFinishData(ok) ==
  {"spec", "statement", "values", "ctx", "startedAt"}
    \cup (IF ok THEN {"result"} ELSE {"err"})
    \cup {"finishedAt", "ms"}

ExecReleases_always(f) == TRUE

\* client.release() in exec's finally: only a connection exec acquired itself
ExecReleases(f) == f.ctxClient = 0

\* a frame settles: it is popped and its promise is handed to the caller
Settle(t, r) ==
  /\ stack' = [stack EXCEPT ![t] = Pop(t)]
  /\ ret' = [ret EXCEPT ![t] = r]
  /\ calls' = [calls EXCEPT ![t][Top(t).call].st = IF r.st = "ok" THEN "resolved" ELSE "rejected",
                            ![t][Top(t).call].v = r.v]

\* the caller pushes a callee frame and records the call
PushCall(t, caller, kind, arg, stmt, ctxClient, depth) ==
  LET id == Len(calls[t]) + 1 IN
  /\ stack' = [stack EXCEPT ![t] =
                 Append(Append(Pop(t), caller),
                        Frame(kind, id, "start", arg, stmt, ctxClient, depth))]
  /\ calls' = [calls EXCEPT ![t] =
                 Append(@, Call(kind, arg, stmt, ctxClient, caller.call, depth))]

\* the execFinish listener the caller registered: it throws on the events of one
\* statement, or on none
ListenerKinds == {"none", "BEGIN", "Q", "COMMIT", "ROLLBACK"}
\* this.emit('execFinish', ...) rethrows what a listener throws
ListenerThrows(stmt) == listener = stmt

MainFrame == Frame("main", 0, "idle", "none", "none", 0, 0)

InitDb ==
  /\ pool = [c \in Conns |-> 0]
  /\ stack = [t \in Tasks |-> <<MainFrame>>]
  /\ ret = [t \in Tasks |-> NoRet]
  /\ calls = [t \in Tasks |-> <<>>]
  /\ trace = [t \in Tasks |-> <<>>]
  /\ emitted = [t \in Tasks |-> <<>>]
  /\ listener \in ListenerKinds
  /\ heap = <<>> /\ estack = <<>> /\ eret = NoRet /\ pending = {}
  /\ elog = <<>> /\ eres = NoRet /\ ncalls = 0
  /\ NoSave /\ NoKeys /\ NoLink

\* ------------------------------------------------------------ the callers
\* a task's caller code calls db.exec(statementOrSpec) without a ctx
MainExec(t) ==
  /\ Top(t).kind = "main" /\ Top(t).pc = "idle"
  /\ \E arg \in ExecArgKinds :
       PushCall(t, [Top(t) EXCEPT !.pc = "await"], "exec", arg, "Q", 0, 0)
  /\ UNCHANGED <<pool, ret, trace, emitted>>
  /\ UNCHANGED <<listener, extvars, savevars, keyvars, linkvars>>

\* a task's caller code calls db.transact(f) without a ctx
MainTransact(t) ==
  /\ Top(t).kind = "main" /\ Top(t).pc = "idle"
  /\ \E arg \in {"function", "undefined"} :
       PushCall(t, [Top(t) EXCEPT !.pc = "await"], "transact", arg, "none", 0, 1)
  /\ UNCHANGED <<pool, ret, trace, emitted>>
  /\ UNCHANGED <<listener, extvars, savevars, keyvars, linkvars>>

\* a task's caller code calls db.convertSpec(spec): it returns or throws at once
MainConvertSpec(t) ==
  /\ Top(t).kind = "main" /\ Top(t).pc = "idle"
  /\ \E spec \in ExecArgKinds :
       LET r == IF ConvertSpec(spec) = "ok" THEN Resolved("parsed")
                ELSE Rejected(ConvertSpec(spec))
       IN
       /\ stack' = SetTop(t, [Top(t) EXCEPT !.pc = "done", !.saved = r])
       /\ calls' = [calls EXCEPT ![t] = Append(@,
                      [Call("convertSpec", spec, "none", 0, 0, 0) EXCEPT
                         !.st = IF r.st = "ok" THEN "resolved" ELSE "rejected",
                         !.v = r.v])]
  /\ UNCHANGED <<pool, ret, trace, emitted>>
  /\ UNCHANGED <<listener, extvars, savevars, keyvars, linkvars>>

MainDone(t) ==
  /\ Top(t).kind = "main" /\ Top(t).pc = "await" /\ ret[t].st # "none"
  /\ stack' = SetTop(t, [Top(t) EXCEPT !.pc = "done", !.saved = ret[t]])
  /\ ret' = [ret EXCEPT ![t] = NoRet]
  /\ UNCHANGED <<pool, calls, trace, emitted>>
  /\ UNCHANGED <<listener, extvars, savevars, keyvars, linkvars>>

\* ------------------------------------------------------------------ Db.exec
\* the overload resolution of exec: a string or an object is executed
ExecArgValid(arg) == TypeOf(arg) \in {"string", "object"}

\* how the arguments of exec are taken: a spec goes through convertSpec
ExecArguments(arg) ==
  IF ~ExecArgValid(arg) THEN "ARGUMENTS_INVALID"
  ELSE IF TypeOf(arg) = "object" THEN ConvertSpec(arg)
  ELSE "ok"

\* const client = ctx.client || await this.pool.connect()
ExecNeedsConnect(f) == f.ctxClient = 0

ExecStart(t) ==
  /\ Top(t).kind = "exec" /\ Top(t).pc = "start"
  /\ IF ExecArguments(Top(t).arg) # "ok"
       THEN /\ Settle(t, Rejected(ExecArguments(Top(t).arg)))
            /\ UNCHANGED <<pool, trace, emitted>>
       ELSE /\ stack' = SetTop(t, [Top(t) EXCEPT
                          !.pc = IF ExecNeedsConnect(Top(t)) THEN "connect" ELSE "query"])
            /\ UNCHANGED <<pool, ret, calls, trace, emitted>>
  /\ UNCHANGED <<listener, extvars, savevars, keyvars, linkvars>>

\* await this.pool.connect(): an idle connection is checked out, or connect rejects
ExecConnect(t) ==
  /\ Top(t).kind = "exec" /\ Top(t).pc = "connect"
  /\ \/ LET c == PoolConnect IN
          /\ IdleConns # {}
          /\ pool' = [pool EXCEPT ![c] = t]
          /\ stack' = SetTop(t, [Top(t) EXCEPT !.pc = "query", !.client = c])
          /\ calls' = [calls EXCEPT ![t][Top(t).call].conn = c]
          /\ trace' = [trace EXCEPT ![t] = Append(@, Event("acquire", Top(t).call, c, "none", TRUE))]
          /\ UNCHANGED <<ret, emitted>>
     \/ /\ Settle(t, Rejected("ConnectFailed"))
        /\ UNCHANGED <<pool, trace, emitted>>
  /\ UNCHANGED <<listener, extvars, savevars, keyvars, linkvars>>

\* client.query(statement, values) is called
ExecQuery(t) ==
  /\ Top(t).kind = "exec" /\ Top(t).pc = "query"
  /\ stack' = SetTop(t, [Top(t) EXCEPT !.pc = "settle"])
  /\ trace' = [trace EXCEPT ![t] = Append(@, Event("query", Top(t).call, Top(t).client, Top(t).stmt, TRUE))]
  /\ UNCHANGED <<pool, ret, calls, emitted>>
  /\ UNCHANGED <<listener, extvars, savevars, keyvars, linkvars>>

\* the query settles; try / catch / finally of exec run to the end
ExecSettle(t) ==
  /\ Top(t).kind = "exec" /\ Top(t).pc = "settle"
  /\ \E ok \in BOOLEAN :
       LET f == Top(t)
           done == Event("result", f.call, f.client, f.stmt, ok)
           rel == Event("release", f.call, f.client, "none", TRUE)
       IN
       /\ emitted' = [emitted EXCEPT ![t] =
                        Append(@, [call |-> f.call, keys |-> ExecFinishData(ok)])]
       /\ IF ListenerThrows(f.stmt)
            THEN \* this.emit throws inside finally: the rest of finally is skipped
                 /\ Settle(t, Rejected("ListenerThrew"))
                 /\ trace' = [trace EXCEPT ![t] = Append(@, done)]
                 /\ UNCHANGED pool
            ELSE /\ Settle(t, IF ok THEN Resolved(f.stmt) ELSE Rejected(QueryError(f.stmt)))
                 /\ IF ExecReleases(f)
                      THEN /\ pool' = [pool EXCEPT ![f.client] = 0]
                           /\ trace' = [trace EXCEPT ![t] = Append(Append(@, done), rel)]
                      ELSE /\ trace' = [trace EXCEPT ![t] = Append(@, done)]
                           /\ UNCHANGED pool
  /\ UNCHANGED <<listener, extvars, savevars, keyvars, linkvars>>

\* -------------------------------------------------------------- Db.transact
\* if (typeof f !== 'function') throw ARGUMENTS_INVALID
TransactArgValid(arg) == arg = "function"

TransactReuses_never(f) == FALSE

\* if (ctx && ctx.client) return f(ctx): already within a transaction
TransactReuses(f) == f.ctxClient # 0

\* try { result = await f(ctx); await exec('COMMIT') } catch { await exec('ROLLBACK') }
AfterFn(r) == IF r.st = "ok" THEN "COMMIT" ELSE "ROLLBACK"

AfterCommit_ignored(r) == "return"

\* a rejected COMMIT is caught by the same catch block
AfterCommit(r) == IF r.st = "ok" THEN "return" ELSE "ROLLBACK"

AfterRollback_swallow(saved, r) == IF r.st = "ok" THEN Resolved("rolledBack") ELSE r

\* catch (err) { await this.exec('ROLLBACK', ctx); throw err; }
AfterRollback(saved, r) == IF r.st = "ok" THEN Rejected(saved.v) ELSE r

\* ctx.client.release() of transact: in the catch of BEGIN and in the finally
TransactRelease(t, f) ==
  /\ pool' = [pool EXCEPT ![f.client] = 0]
  /\ trace' = [trace EXCEPT ![t] = Append(@, Event("release", f.call, f.client, "none", TRUE))]

FnFrame(f) == Frame("fn", f.call, "run", "none", "none", f.client, f.depth)

TransactStart(t) ==
  /\ Top(t).kind = "transact" /\ Top(t).pc = "start"
  /\ IF ~TransactArgValid(Top(t).arg)
       THEN /\ Settle(t, Rejected("ARGUMENTS_INVALID"))
            /\ UNCHANGED <<pool, trace, emitted>>
       ELSE /\ IF TransactReuses(Top(t))
                 THEN /\ stack' = [stack EXCEPT ![t] =
                                     Append(Append(Pop(t), [Top(t) EXCEPT !.pc = "reuse"]),
                                            FnFrame(Top(t)))]
                      /\ calls' = [calls EXCEPT ![t][Top(t).call].fnClient = Top(t).client]
                 ELSE /\ stack' = SetTop(t, [Top(t) EXCEPT !.pc = "connect"])
                      /\ UNCHANGED calls
            /\ UNCHANGED <<pool, ret, trace, emitted>>
  /\ UNCHANGED <<listener, extvars, savevars, keyvars, linkvars>>

\* return f(ctx): the nested call settles as f settles
TransactReuseDone(t) ==
  /\ Top(t).kind = "transact" /\ Top(t).pc = "reuse" /\ ret[t].st # "none"
  /\ stack' = [stack EXCEPT ![t] = Pop(t)]
  /\ UNCHANGED ret
  /\ calls' = [calls EXCEPT ![t][Top(t).call].st = IF ret[t].st = "ok" THEN "resolved" ELSE "rejected",
                            ![t][Top(t).call].v = ret[t].v,
                            ![t][Top(t).call].fn = ret[t]]
  /\ UNCHANGED <<pool, trace, emitted>>
  /\ UNCHANGED <<listener, extvars, savevars, keyvars, linkvars>>

CallerCtx_shared(ctxClient, c) == c

\* the client key of the ctx object of the caller once transact has attached the
\* connection: Object.assign({}, ctx, {client}) writes to a copy
CallerCtx(ctxClient, c) == ctxClient

\* ctx = Object.assign({}, ctx, {client: await this.pool.connect()})
TransactConnect(t) ==
  /\ Top(t).kind = "transact" /\ Top(t).pc = "connect"
  /\ \/ LET c == PoolConnect
              caller == Len(stack[t]) - 1
          IN
          /\ IdleConns # {}
          /\ pool' = [pool EXCEPT ![c] = t]
          /\ stack' = [stack EXCEPT ![t] =
                         [@ EXCEPT ![caller + 1] = [Top(t) EXCEPT !.pc = "connected", !.client = c],
                                   ![caller].ctxClient = CallerCtx(@, c)]]
          /\ calls' = [calls EXCEPT ![t][Top(t).call].conn = c]
          /\ trace' = [trace EXCEPT ![t] = Append(@, Event("acquire", Top(t).call, c, "none", TRUE))]
          /\ UNCHANGED <<ret, emitted>>
     \/ /\ Settle(t, Rejected("ConnectFailed"))
        /\ UNCHANGED <<pool, trace, emitted>>
  /\ UNCHANGED <<listener, extvars, savevars, keyvars, linkvars>>

\* await this.exec('BEGIN', ctx)
TransactBegin(t) ==
  /\ Top(t).kind = "transact" /\ Top(t).pc = "connected"
  /\ PushCall(t, [Top(t) EXCEPT !.pc = "begin"], "exec", "string", "BEGIN",
              Top(t).client, Top(t).depth)
  /\ UNCHANGED <<pool, ret, trace, emitted>>
  /\ UNCHANGED <<listener, extvars, savevars, keyvars, linkvars>>

\* BEGIN settled: on failure release and rethrow, else call f(ctx)
TransactAfterBegin(t) ==
  /\ Top(t).kind = "transact" /\ Top(t).pc = "begin" /\ ret[t].st # "none"
  /\ IF ret[t].st = "err"
       THEN /\ Settle(t, ret[t])
            /\ TransactRelease(t, Top(t))
            /\ UNCHANGED emitted
       ELSE /\ stack' = [stack EXCEPT ![t] =
                           Append(Append(Pop(t), [Top(t) EXCEPT !.pc = "fn"]), FnFrame(Top(t)))]
            /\ ret' = [ret EXCEPT ![t] = NoRet]
            /\ calls' = [calls EXCEPT ![t][Top(t).call].fnClient = Top(t).client]
            /\ UNCHANGED <<pool, trace, emitted>>
  /\ UNCHANGED <<listener, extvars, savevars, keyvars, linkvars>>

\* f settled: COMMIT on success, ROLLBACK on failure
TransactAfterFn(t) ==
  /\ Top(t).kind = "transact" /\ Top(t).pc = "fn" /\ ret[t].st # "none"
  /\ LET f == [Top(t) EXCEPT !.pc = IF AfterFn(ret[t]) = "COMMIT" THEN "commit" ELSE "rollback",
                             !.saved = ret[t]]
         id == Len(calls[t]) + 1
     IN
     /\ stack' = [stack EXCEPT ![t] =
                    Append(Append(Pop(t), f),
                           Frame("exec", id, "start", "string", AfterFn(ret[t]), f.client, f.depth))]
     /\ calls' = [calls EXCEPT ![t] =
                    Append([@ EXCEPT ![f.call].fn = ret[t]],
                           Call("exec", "string", AfterFn(ret[t]), f.client, f.call, f.depth))]
  /\ ret' = [ret EXCEPT ![t] = NoRet]
  /\ UNCHANGED <<pool, trace, emitted>>
  /\ UNCHANGED <<listener, extvars, savevars, keyvars, linkvars>>

\* COMMIT settled: return result (finally releases), or fall into the catch block
TransactAfterCommit(t) ==
  /\ Top(t).kind = "transact" /\ Top(t).pc = "commit" /\ ret[t].st # "none"
  /\ IF AfterCommit(ret[t]) = "return"
       THEN /\ Settle(t, Top(t).saved)
            /\ TransactRelease(t, Top(t))
            /\ UNCHANGED emitted
       ELSE /\ PushCall(t, [Top(t) EXCEPT !.pc = "rollback", !.saved = ret[t]],
                        "exec", "string", "ROLLBACK", Top(t).client, Top(t).depth)
            /\ ret' = [ret EXCEPT ![t] = NoRet]
            /\ UNCHANGED <<pool, trace, emitted>>
  /\ UNCHANGED <<listener, extvars, savevars, keyvars, linkvars>>

\* ROLLBACK settled: throw the caught error, or the rollback's own; finally releases
TransactAfterRollback(t) ==
  /\ Top(t).kind = "transact" /\ Top(t).pc = "rollback" /\ ret[t].st # "none"
  /\ Settle(t, AfterRollback(Top(t).saved, ret[t]))
  /\ TransactRelease(t, Top(t))
  /\ UNCHANGED emitted
  /\ UNCHANGED <<listener, extvars, savevars, keyvars, linkvars>>

\* ------------------------------------------------ the function given to transact
FnStmts(t) ==
  Cardinality({k \in DOMAIN calls[t] :
    calls[t][k].kind = "exec" /\ calls[t][k].stmt = "Q" /\ calls[t][k].parent # 0})

Nested(t) ==
  Cardinality({k \in DOMAIN calls[t] :
    calls[t][k].kind = "transact" /\ calls[t][k].parent # 0})

\* f runs db.exec(statement, ctx), or db.exec(statement) without threading ctx
FnExec(t) ==
  /\ Top(t).kind = "fn" /\ Top(t).pc = "run"
  /\ FnStmts(t) < MaxStmts
  /\ \E threaded \in BOOLEAN :
       PushCall(t, [Top(t) EXCEPT !.pc = "await"], "exec", "string", "Q",
                IF threaded THEN Top(t).client ELSE 0, Top(t).depth)
  /\ UNCHANGED <<pool, ret, trace, emitted>>
  /\ UNCHANGED <<listener, extvars, savevars, keyvars, linkvars>>

\* f runs db.transact(g, ctx) with the ctx it was given
FnTransact(t) ==
  /\ Top(t).kind = "fn" /\ Top(t).pc = "run"
  /\ Nested(t) < MaxNest
  /\ PushCall(t, [Top(t) EXCEPT !.pc = "await"], "transact", "function", "none",
              Top(t).client, Top(t).depth + 1)
  /\ UNCHANGED <<pool, ret, trace, emitted>>
  /\ UNCHANGED <<listener, extvars, savevars, keyvars, linkvars>>

\* what f awaited has settled: f goes on, or lets the rejection propagate
FnAwaited(t) ==
  /\ Top(t).kind = "fn" /\ Top(t).pc = "await" /\ ret[t].st # "none"
  /\ \/ /\ stack' = SetTop(t, [Top(t) EXCEPT !.pc = "run"])
        /\ ret' = [ret EXCEPT ![t] = NoRet]
     \/ /\ ret[t].st = "err"
        /\ stack' = [stack EXCEPT ![t] = Pop(t)]
        /\ UNCHANGED ret
  /\ UNCHANGED <<pool, calls, trace, emitted>>
  /\ UNCHANGED <<listener, extvars, savevars, keyvars, linkvars>>

FnResolve(t) ==
  /\ Top(t).kind = "fn" /\ Top(t).pc = "run"
  /\ stack' = [stack EXCEPT ![t] = Pop(t)]
  /\ ret' = [ret EXCEPT ![t] = Resolved("fnResult")]
  /\ UNCHANGED <<pool, calls, trace, emitted>>
  /\ UNCHANGED <<listener, extvars, savevars, keyvars, linkvars>>

FnReject(t) ==
  /\ Top(t).kind = "fn" /\ Top(t).pc = "run"
  /\ stack' = [stack EXCEPT ![t] = Pop(t)]
  /\ ret' = [ret EXCEPT ![t] = Rejected("fnError")]
  /\ UNCHANGED <<pool, calls, trace, emitted>>
  /\ UNCHANGED <<listener, extvars, savevars, keyvars, linkvars>>

NextDb ==
  \E t \in Tasks :
    \/ MainExec(t) \/ MainConvertSpec(t) \/ MainTransact(t) \/ MainDone(t)
    \/ ExecStart(t) \/ ExecConnect(t) \/ ExecQuery(t) \/ ExecSettle(t)
    \/ TransactStart(t) \/ TransactReuseDone(t) \/ TransactConnect(t) \/ TransactBegin(t)
    \/ TransactAfterBegin(t) \/ TransactAfterFn(t) \/ TransactAfterCommit(t)
    \/ TransactAfterRollback(t)
    \/ FnExec(t) \/ FnTransact(t) \/ FnAwaited(t) \/ FnResolve(t) \/ FnReject(t)

SpecDb == InitDb /\ [][NextDb]_vars

\* ------------------------------------ call chains that share a ctx or a pool
\* the calls the caller code of a chain has made
TopCalls(t) == {k \in DOMAIN calls[t] : calls[t][k].parent = 0}

\* db.exec(statement, ctx) or db.transact(f, ctx) with the ctx object of the
\* chain, which makes so many calls one after the other
ChainCall(t, turns) ==
  /\ Top(t).kind = "main" /\ Top(t).pc = "idle"
  /\ Cardinality(TopCalls(t)) < turns
  /\ \/ PushCall(t, [Top(t) EXCEPT !.pc = "await"], "exec", "string", "Q",
                 Top(t).ctxClient, 0)
     \/ PushCall(t, [Top(t) EXCEPT !.pc = "await"], "transact", "function", "none",
                 Top(t).ctxClient, 1)
  /\ UNCHANGED <<pool, ret, trace, emitted>>
  /\ UNCHANGED <<listener, extvars, savevars, keyvars, linkvars>>

\* the call has settled: the caller code goes on
ChainAwaited(t) ==
  /\ Top(t).kind = "main" /\ Top(t).pc = "await" /\ ret[t].st # "none"
  /\ stack' = SetTop(t, [Top(t) EXCEPT !.pc = "idle", !.saved = ret[t]])
  /\ ret' = [ret EXCEPT ![t] = NoRet]
  /\ UNCHANGED <<pool, calls, trace, emitted>>
  /\ UNCHANGED <<listener, extvars, savevars, keyvars, linkvars>>

\* the function given to transact runs one statement, with or without the ctx
ChainFnExec(t) == FnStmts(t) = 0 /\ FnExec(t)

\* one chain that calls twice with the same ctx object
NextLater ==
  \E t \in Tasks :
    \/ ChainCall(t, 2) \/ ChainAwaited(t)
    \/ ExecStart(t) \/ ExecConnect(t) \/ ExecQuery(t) \/ ExecSettle(t)
    \/ TransactStart(t) \/ TransactConnect(t) \/ TransactBegin(t)
    \/ TransactAfterBegin(t) \/ TransactAfterFn(t) \/ TransactAfterCommit(t)
    \/ TransactAfterRollback(t)
    \/ ChainFnExec(t) \/ FnAwaited(t) \/ FnResolve(t) \/ FnReject(t)

SpecLater == InitDb /\ [][NextLater]_vars

\* two chains on one pool, each making one call
Chains == {1, 2}

InitTx ==
  /\ pool = [c \in Conns |-> 0]
  /\ stack = [t \in Chains |-> <<MainFrame>>]
  /\ ret = [t \in Chains |-> NoRet]
  /\ calls = [t \in Chains |-> <<>>]
  /\ trace = [t \in Chains |-> <<>>]
  /\ emitted = [t \in Chains |-> <<>>]
  /\ listener \in {"none", "Q"}
  /\ heap = <<>> /\ estack = <<>> /\ eret = NoRet /\ pending = {}
  /\ elog = <<>> /\ eres = NoRet /\ ncalls = 0
  /\ NoSave /\ NoKeys /\ NoLink

NextTx ==
  \E t \in Chains :
    \/ ChainCall(t, 1) \/ ChainAwaited(t)
    \/ ExecStart(t) \/ ExecConnect(t) \/ ExecQuery(t) \/ ExecSettle(t)
    \/ TransactStart(t) \/ TransactConnect(t) \/ TransactBegin(t)
    \/ TransactAfterBegin(t) \/ TransactAfterFn(t) \/ TransactAfterCommit(t)
    \/ TransactAfterRollback(t)
    \/ ChainFnExec(t) \/ FnAwaited(t) \/ FnResolve(t) \/ FnReject(t)

SpecTx == InitTx /\ [][NextTx]_vars

\* ============================================================ Db: the claims
IsDone(t, k) == calls[t][k].st # "running"

\* the transact calls that open a transaction of their own (no ctx.client)
OwnTransacts(t) ==
  {k \in DOMAIN calls[t] : calls[t][k].kind = "transact" /\ ~calls[t][k].hadClient}

\* the transact calls that were given a ctx with a client
ReusingTransacts(t) ==
  {k \in DOMAIN calls[t] : calls[t][k].kind = "transact" /\ calls[t][k].hadClient}

ExecCalls(t) == {k \in DOMAIN calls[t] : calls[t][k].kind = "exec"}

\* the exec call a transact call made for a statement of its own
OwnExec(t, k, stmt) ==
  {e \in ExecCalls(t) : calls[t][e].parent = k /\ calls[t][e].stmt = stmt}

\* positions of the trace where an event of a kind happened on a connection
At(t, ev, conn) ==
  {i \in DOMAIN trace[t] : trace[t][i].ev = ev /\ trace[t][i].conn = conn}

AtStmt(t, ev, conn, stmt) == {i \in At(t, ev, conn) : trace[t][i].stmt = stmt}

\* positions of the trace made by one call
By(t, ev, k) == {i \in DOMAIN trace[t] : trace[t][i].ev = ev /\ trace[t][i].call = k}

EmittedBy(t, k) == {i \in DOMAIN emitted[t] : emitted[t][i].call = k}

\* the statements sent on a connection, in order
IsQueryOn(conn, e) == e.ev = "query" /\ e.conn = conn
StmtsOn(t, conn) ==
  LET Sent(e) == IsQueryOn(conn, e)
      q == SelectSeq(trace[t], Sent)
  IN [i \in DOMAIN q |-> q[i].stmt]

\* C1: when transact is called without ctx.client and fn rejects, ROLLBACK is
\* executed on the transaction's connection, COMMIT is never executed, and
\* transact rejects: with fn's own error when ROLLBACK succeeds, and still
\* rejects (nothing is swallowed) when ROLLBACK itself fails.
C1_RollbackOnReject ==
  \A t \in Tasks : \A k \in OwnTransacts(t) :
    (IsDone(t, k) /\ calls[t][k].fn.st = "err") =>
      /\ AtStmt(t, "query", calls[t][k].conn, "ROLLBACK") # {}
      /\ \A i \in AtStmt(t, "query", calls[t][k].conn, "ROLLBACK") :
           calls[t][trace[t][i].call].parent = k
      /\ \A i \in DOMAIN trace[t] : trace[t][i].stmt # "COMMIT"
      /\ calls[t][k].st = "rejected"
      /\ \A e \in OwnExec(t, k, "ROLLBACK") :
           /\ calls[t][e].st = "resolved" => calls[t][k].v = calls[t][k].fn.v
           /\ calls[t][e].st = "rejected" => calls[t][k].v = calls[t][e].v

C1_Witness ==
  \E t \in Tasks : \E k \in OwnTransacts(t) :
    /\ IsDone(t, k) /\ calls[t][k].fn.st = "err"
    /\ calls[t][k].v = "RollbackFailed"

C1_WitnessOriginalError ==
  \E t \in Tasks : \E k \in OwnTransacts(t) :
    /\ IsDone(t, k) /\ calls[t][k].fn = Rejected("fnError")
    /\ calls[t][k].v = "fnError"

\* the statements of a transaction whose fn resolved, as C2 states them:
\* BEGIN, the statements of fn, COMMIT
CommittedShape(q) ==
  /\ Len(q) >= 2
  /\ q[1] = "BEGIN"
  /\ q[Len(q)] = "COMMIT"
  /\ \A i \in 2..(Len(q) - 1) : q[i] = "Q"

ResolvesAfterCommit(t, k) ==
  calls[t][k].st = "resolved" =>
    /\ calls[t][k].v = calls[t][k].fn.v
    /\ \A e \in OwnExec(t, k, "COMMIT") : calls[t][e].st = "resolved"
    /\ OwnExec(t, k, "COMMIT") # {}

\* C2 as stated: when transact is called without ctx.client and fn resolves, the
\* statements are BEGIN, fn's statements, COMMIT in that order on the one
\* connection transact acquired, no ROLLBACK is executed, and transact resolves
\* with fn's result only after COMMIT has succeeded.
C2_Original ==
  \A t \in Tasks : \A k \in OwnTransacts(t) :
    (IsDone(t, k) /\ calls[t][k].fn.st = "ok") =>
      /\ CommittedShape(StmtsOn(t, calls[t][k].conn))
      /\ \A i \in DOMAIN trace[t] : trace[t][i].stmt # "ROLLBACK"
      /\ ResolvesAfterCommit(t, k)

\* C2 as amended: when fn resolves the statements on the transaction's connection
\* are BEGIN, fn's statements, COMMIT in that order; a ROLLBACK is executed only
\* when the exec of COMMIT rejected, then right after COMMIT, and transact then
\* rejects; transact resolves with fn's result only after COMMIT has succeeded.
C2_CommitOnResolve ==
  \A t \in Tasks : \A k \in OwnTransacts(t) :
    (IsDone(t, k) /\ calls[t][k].fn.st = "ok") =>
      LET q == StmtsOn(t, calls[t][k].conn)
          commitFailed == \E e \in OwnExec(t, k, "COMMIT") : calls[t][e].st = "rejected"
      IN
      /\ IF commitFailed
           THEN /\ Len(q) >= 3
                /\ q[Len(q)] = "ROLLBACK"
                /\ CommittedShape(SubSeq(q, 1, Len(q) - 1))
                /\ calls[t][k].st = "rejected"
           ELSE /\ CommittedShape(q)
                /\ calls[t][k].st = "resolved"
      /\ \A i \in DOMAIN trace[t] :
           trace[t][i].ev = "query" /\ trace[t][i].stmt \in {"BEGIN", "COMMIT", "ROLLBACK"}
             => trace[t][i].conn = calls[t][k].conn
      /\ \A e \in ExecCalls(t) :
           calls[t][e].hadClient => \A i \in By(t, "query", e) : trace[t][i].conn = calls[t][k].conn
      /\ ResolvesAfterCommit(t, k)

C2_Witness ==
  \E t \in Tasks : \E k \in OwnTransacts(t) :
    /\ calls[t][k].st = "resolved" /\ calls[t][k].v = "fnResult"
    /\ StmtsOn(t, calls[t][k].conn) = <<"BEGIN", "Q", "COMMIT">>

\* C3: for every outcome of transact called without ctx.client, the connection it
\* acquired is released exactly once, and not before the last statement of the
\* transaction has finished.
C3_ReleasedOnce ==
  \A t \in Tasks : \A k \in OwnTransacts(t) :
    LET c == calls[t][k].conn
        rel == At(t, "release", c)
        queries == At(t, "query", c)
        results == At(t, "result", c)
    IN
    c # 0 =>
      /\ Cardinality(rel) <= 1
      /\ \A r \in rel :
           /\ trace[t][r].call = k
           /\ \A i \in queries \cup results : i < r
           /\ Cardinality(queries) = Cardinality(results)
      /\ IsDone(t, k) => Cardinality(rel) = 1 /\ pool[c] = 0
      /\ ~IsDone(t, k) => rel = {} /\ pool[c] = t

C3_Witness ==
  \E t \in Tasks : \E k \in OwnTransacts(t) :
    /\ IsDone(t, k) /\ calls[t][k].v = "RollbackFailed"
    /\ Cardinality(At(t, "release", calls[t][k].conn)) = 1

\* C4: transact called with ctx.client set invokes fn with that same ctx,
\* executes no BEGIN, COMMIT or ROLLBACK of its own and does not release the
\* client; so a nest of transact calls that thread the outer ctx runs exactly
\* one BEGIN and exactly one COMMIT (or ROLLBACK) in all.
C4_NestedReuse ==
  \A t \in Tasks :
    /\ \A k \in ReusingTransacts(t) :
         /\ calls[t][k].conn = 0
         /\ calls[t][k].fn.st # "none" => calls[t][k].fnClient = calls[t][k].ctxClient
         /\ IsDone(t, k) => calls[t][k].fn.st # "none"
         /\ \A e \in ExecCalls(t) : calls[t][e].parent = k => calls[t][e].stmt = "Q"
         /\ \A i \in DOMAIN trace[t] : trace[t][i].call # k
    /\ \A k \in OwnTransacts(t) :
         (IsDone(t, k) /\ calls[t][k].fn.st # "none") =>
           LET n(stmt) == Cardinality({i \in DOMAIN trace[t] :
                            trace[t][i].ev = "query" /\ trace[t][i].stmt = stmt})
               commits == n("COMMIT")
               rollbacks == n("ROLLBACK")
           IN /\ n("BEGIN") = 1
              /\ commits <= 1 /\ rollbacks <= 1
              /\ commits = 1 \/ rollbacks = 1

C4_Witness ==
  \E t \in Tasks : \E k \in OwnTransacts(t) : \E n \in ReusingTransacts(t) :
    /\ calls[t][k].st = "resolved"
    /\ calls[t][n].st = "resolved" /\ calls[t][n].parent = k
    /\ calls[t][n].fnClient = calls[t][k].conn

EventComplete(keys) ==
  /\ {"statement", "values", "ctx", "startedAt", "finishedAt"} \subseteq keys
  /\ ("result" \in keys) # ("err" \in keys)

C6_ExecReleasesItsOwn ==
  \A t \in Tasks : \A k \in ExecCalls(t) :
    /\ By(t, "acquire", k) # {} => ~calls[t][k].hadClient
    /\ (By(t, "query", k) # {} /\ ~calls[t][k].hadClient) => Cardinality(By(t, "acquire", k)) = 1
    /\ calls[t][k].hadClient => By(t, "release", k) = {}
    /\ (IsDone(t, k) /\ By(t, "acquire", k) # {}) =>
         /\ Cardinality(By(t, "release", k)) = 1
         /\ pool[calls[t][k].conn] = 0

\* =============================================================== Model.extend
\* the classes of the instances: three Model subclasses with extenders, one
\* Model subclass that defines no extenders mapping
Classes == {"Manager", "Fedora", "Nested", "Bare"}

\* what a property of an instance holds
Undef == [k |-> "undef", n |-> 0, a |-> <<>>]
Num(n) == [k |-> "num", n |-> n, a |-> <<>>]
Obj(o) == [k |-> "obj", n |-> 0, a |-> <<o>>]
Arr(a) == [k |-> "arr", n |-> 0, a |-> a]

Segments == {"hat", "nested", "nestedArray", "incrementedCounter", "missing"}

Instance(type, id, hatId) ==
  [type |-> type, id |-> id, hatId |-> hatId, props |-> [s \in Segments |-> Undef]]
Free == Instance("free", 0, 0)
\* new SomeModel({property: value}): the constructor assigns what it is given
Preset(inst, property, value) == [inst EXCEPT !.props[property] = value]

Objs == 1..MaxObjs
\* the rows of the hats table
HatRows == {1}

\* static extenders of each class: property -> what the extender does
Extenders(model) ==
  CASE model = "Fedora" ->
         [incrementedCounter |-> "counter", nested |-> "nested",
          nestedArray |-> "nestedArray"]
    [] model = "Nested" -> [incrementedCounter |-> "counter"]
    [] model = "Manager" -> [hat |-> "reference"]

\* whether the class has an extenders mapping at all
HasExtenders(model) == model \in {"Fedora", "Nested", "Manager"}

\* typeof constructor.extend === 'function': the Model subclasses inherit extend
HasExtend(type) == type \in Classes

FreeIds(h) == {o \in Objs : h[o].type = "free"}
Alloc(h) == CHOOSE o \in FreeIds(h) : \A q \in FreeIds(h) : o <= q
Done(h) == [h |-> h, err |-> "none"]
Failed(h, err) == [h |-> h, err |-> err]

\* instance.incrementedCounter = (instance.incrementedCounter || 0) + 1
RECURSIVE ApplyCounter(_, _, _)
ApplyCounter(h, list, p) ==
  IF list = <<>> THEN Done(h)
  ELSE LET o == Head(list)
           old == IF h[o].props[p].k = "num" THEN h[o].props[p].n ELSE 0
       IN ApplyCounter([h EXCEPT ![o].props[p] = Num(old + 1)], Tail(list), p)

\* if (instance.nested) throw 'Already extended'; instance.nested = new Nested()
RECURSIVE ApplyNested(_, _, _)
ApplyNested(h, list, p) ==
  IF list = <<>> THEN Done(h)
  ELSE LET o == Head(list) IN
       IF h[o].props[p].k # "undef" THEN Failed(h, "AlreadyExtended")
       ELSE IF FreeIds(h) = {} THEN Failed(h, "HeapFull")
       ELSE LET n == Alloc(h) IN
            ApplyNested([h EXCEPT ![n] = Instance("Nested", 0, 0), ![o].props[p] = Obj(n)],
                        Tail(list), p)

\* instance.nestedArray = [new Nested(), new Nested()]
RECURSIVE ApplyNestedArray(_, _, _)
ApplyNestedArray(h, list, p) ==
  IF list = <<>> THEN Done(h)
  ELSE LET o == Head(list) IN
       IF h[o].props[p].k # "undef" THEN Failed(h, "AlreadyExtended")
       ELSE IF Cardinality(FreeIds(h)) < 2 THEN Failed(h, "HeapFull")
       ELSE LET n1 == Alloc(h)
                h1 == [h EXCEPT ![n1] = Instance("Nested", 0, 0)]
                n2 == Alloc(h1)
                h2 == [h1 EXCEPT ![n2] = Instance("Nested", 0, 0)]
            IN ApplyNestedArray([h2 EXCEPT ![o].props[p] = Arr(<<n1, n2>>)], Tail(list), p)

Elems(list) == {list[i] : i \in DOMAIN list}

\* referencedModel.find({where: {id: {$in: ids}}}): one new instance per row found
RECURSIVE FindHats(_, _, _)
FindHats(h, ids, found) ==
  IF ids = {} THEN [h |-> h, found |-> found, err |-> "none"]
  ELSE LET id == CHOOSE x \in ids : \A y \in ids : x <= y IN
       IF FreeIds(h) = {} THEN [h |-> h, found |-> found, err |-> "HeapFull"]
       ELSE LET n == Alloc(h) IN
            FindHats([h EXCEPT ![n] = Instance("Fedora", id, 0)], ids \ {id},
                     found \cup {<<id, n>>})

\* instance[property] = referencedInstances.find(r => r.id === instance[`${property}Id`])
RECURSIVE AssignReferences(_, _, _, _)
AssignReferences(h, list, p, found) ==
  IF list = <<>> THEN h
  ELSE LET o == Head(list)
           hit == {f \in found : f[1] = h[o].hatId}
           v == IF hit = {} THEN Undef ELSE Obj((CHOOSE f \in hit : TRUE)[2])
       IN AssignReferences([h EXCEPT ![o].props[p] = v], Tail(list), p, found)

\* the reference extender that link synthesizes for a foreign key column
ApplyReference(h, list, p) ==
  LET ids == {h[o].hatId : o \in Elems(list)} \ {0} IN
  IF list = <<>> \/ ids = {} THEN Done(h)
  ELSE LET r == FindHats(h, ids \cap HatRows, {}) IN
       IF r.err # "none" THEN Failed(h, r.err)
       ELSE Done(AssignReferences(r.h, list, p, r.found))

ApplyExtender(kind, h, list, p) ==
  CASE kind = "counter" -> ApplyCounter(h, list, p)
    [] kind = "nested" -> ApplyNested(h, list, p)
    [] kind = "nestedArray" -> ApplyNestedArray(h, list, p)
    [] kind = "reference" -> ApplyReference(h, list, p)

\* ------------------------------------------------------- the steps of extend
EFrame(id, model, insts, kind, props) ==
  [id |-> id, model |-> model, insts |-> insts, kind |-> kind, props |-> props,
   i |-> 1, pc |-> "enter", ext |-> <<>>, ctors |-> <<>>, got |-> "none"]

ELog(ev, id, parent, via, model, prop, insts, kind, props, err) ==
  [ev |-> ev, id |-> id, parent |-> parent, via |-> via, model |-> model,
   prop |-> prop, insts |-> insts, kind |-> kind, props |-> props, err |-> err]

ETop == estack[Len(estack)]
EPop == SubSeq(estack, 1, Len(estack) - 1)
ESetTop(f) == Append(EPop, f)
NextId == Cardinality({j \in DOMAIN elog : elog[j].ev = "extend"}) + 1

\* the dotted paths the callers ask for
Paths ==
  { <<"incrementedCounter">>, <<"nested">>, <<"hat">>, <<"missing">>,
    <<"nested", "incrementedCounter">>, <<"nestedArray", "incrementedCounter">>,
    <<"hat", "incrementedCounter">>,
    <<"hat", "nested", "incrementedCounter">>,
    <<"incrementedCounter", "nested">>, <<"nested", "missing">> }

\* lists of two paths, among them a repeated path and a missing extender
PathPairs ==
  { <<<<"incrementedCounter">>, <<"incrementedCounter">>>>,
    <<<<"nested">>, <<"incrementedCounter">>>>,
    <<<<"nested", "incrementedCounter">>, <<"nestedArray", "incrementedCounter">>>>,
    <<<<"hat">>, <<"hat", "incrementedCounter">>>>,
    <<<<"hat", "incrementedCounter">>, <<"hat", "nested", "incrementedCounter">>>>,
    <<<<"incrementedCounter">>, <<"missing">>>>,
    <<<<"missing">>, <<"incrementedCounter">>>> }

\* properties as the caller gives them: an array of paths, a string, nothing,
\* or a number (zero is falsy)
PropArgs ==
  {[kind |-> k, props |-> <<>>] : k \in {"array", "undefined", "number", "zero"}}
    \cup {[kind |-> "string", props |-> <<p>>] : p \in {<<"incrementedCounter">>}}
    \cup {[kind |-> "array", props |-> <<p>>] : p \in Paths}
    \cup {[kind |-> "array", props |-> pair] : pair \in PathPairs}

\* the instances the caller holds: those it constructed
Constructed == 1..5
Held(model) == {o \in Constructed : heap[o].type = model}
InstLists(model) ==
  {<<>>} \cup {<<o>> : o \in Held(model)}
         \cup {pair \in Held(model) \X Held(model) : pair[1] < pair[2]}

InitExt ==
  /\ pool = [c \in Conns |-> 0]
  /\ stack = [t \in Tasks |-> <<>>]
  /\ ret = [t \in Tasks |-> NoRet]
  /\ calls = [t \in Tasks |-> <<>>]
  /\ trace = [t \in Tasks |-> <<>>]
  /\ emitted = [t \in Tasks |-> <<>>]
  /\ listener = "none"
  /\ \E hatId \in {0, 1, 2} :
       heap = [o \in Objs |->
                 CASE o = 1 -> Instance("Manager", 1, 1)
                   [] o = 2 -> Instance("Manager", 2, hatId)
                   [] o = 3 -> Instance("Fedora", 2, 0)
                   [] o = 4 -> Preset(Instance("Fedora", 3, 0), "nested", Obj(3))
                   [] o = 5 -> Instance("Bare", 1, 0)
                   [] OTHER -> Free]
  /\ estack = <<>> /\ eret = NoRet /\ pending = {}
  /\ elog = <<>> /\ eres = NoRet /\ ncalls = 0
  /\ NoSave /\ NoKeys /\ NoLink

\* settle the running extend call: pop its frame, hand the promise to the caller
ESettle(r) ==
  /\ estack' = EPop
  /\ elog' = Append(elog, ELog("return", ETop.id, 0, ETop.i, ETop.model, "none", ETop.insts,
                               ETop.kind, ETop.props, IF r.st = "ok" THEN "none" ELSE r.v))
  /\ IF Len(estack) = 1
       THEN eres' = r /\ eret' = NoRet
       ELSE eret' = r /\ UNCHANGED eres

\* a caller calls SomeModel.extend(instances, properties)
ExtendCall ==
  /\ estack = <<>> /\ pending = {} /\ ncalls < MaxCalls
  /\ \E model \in Classes : \E insts \in InstLists(model) : \E pa \in PropArgs :
       /\ estack' = <<EFrame(1, model, insts, pa.kind, pa.props)>>
       /\ elog' = <<ELog("extend", 1, 0, 0, model, "none", insts, pa.kind, pa.props, "none")>>
  /\ ncalls' = ncalls + 1
  /\ eres' = NoRet /\ eret' = NoRet
  /\ UNCHANGED <<heap, pending>>
  /\ UNCHANGED <<dbvars, savevars, keyvars, linkvars>>

\* the truthiness of the properties argument
Truthy(kind) == kind \in {"array", "string", "number"}

\* if (properties && !Array.isArray(properties)) throw PROPERTIES_INVALID
PropertiesValid(f) == ~(Truthy(f.kind) /\ f.kind # "array")

\* nothing to do: no instances or no properties
NothingToExtend(f) == f.insts = <<>> \/ ~Truthy(f.kind) \/ f.props = <<>>

ExtendEnter ==
  /\ estack # <<>> /\ ETop.pc = "enter"
  /\ IF ~PropertiesValid(ETop) THEN ESettle(Rejected("PROPERTIES_INVALID"))
     ELSE IF NothingToExtend(ETop) THEN ESettle(Resolved("instances"))
     ELSE /\ estack' = ESetTop([ETop EXCEPT !.pc = "chain"])
          /\ UNCHANGED <<elog, eres, eret>>
  /\ UNCHANGED <<heap, pending, ncalls>>
  /\ UNCHANGED <<dbvars, savevars, keyvars, linkvars>>

\* const extender = this.extenders[property]
LookupExtender(model, property) ==
  IF ~HasExtenders(model) THEN "TypeError"
  ELSE IF property \notin DOMAIN Extenders(model) THEN "EXTENDER_MISSING"
  ELSE Extenders(model)[property]

\* instances.filter(instance => typeof instance[property] === 'undefined')
IsUndefined(o, property) == heap[o].props[property].k = "undef"
InstancesToExtend(insts, property) ==
  LET Needs(o) == IsUndefined(o, property) IN SelectSeq(insts, Needs)

\* for (const chain of properties): look the extender up and invoke it
ExtendChain ==
  /\ estack # <<>> /\ ETop.pc = "chain"
  /\ IF ETop.i > Len(ETop.props) THEN ESettle(Resolved("instances")) /\ UNCHANGED pending
     ELSE LET property == Head(ETop.props[ETop.i])
              extender == LookupExtender(ETop.model, property)
              todo == InstancesToExtend(ETop.insts, property)
          IN
          IF extender \in {"TypeError", "EXTENDER_MISSING"}
            THEN ESettle(Rejected(extender)) /\ UNCHANGED pending
          ELSE IF todo = <<>>
            THEN /\ estack' = ESetTop([ETop EXCEPT !.pc = "extended"])
                 /\ UNCHANGED <<elog, eres, eret, pending>>
          ELSE /\ estack' = ESetTop([ETop EXCEPT !.pc = "await", !.got = "none"])
               /\ pending' = pending \cup
                    {[call |-> ETop.id, via |-> ETop.i, kind |-> extender,
                      prop |-> property, insts |-> todo]}
               /\ elog' = Append(elog, ELog("invoke", ETop.id, 0, ETop.i, ETop.model,
                                            property, todo, "none", <<>>, "none"))
               /\ UNCHANGED <<eres, eret>>
  /\ UNCHANGED <<heap, ncalls>>
  /\ UNCHANGED <<dbvars, savevars, keyvars, linkvars>>

\* an extender invocation settles: it has assigned the property, or it throws
ExtenderSettle ==
  \E inv \in pending :
    LET r == ApplyExtender(inv.kind, heap, inv.insts, inv.prop)
        got == IF r.err = "none" THEN "ok" ELSE r.err
    IN
    /\ r.err # "HeapFull"
    /\ heap' = r.h
    /\ pending' = pending \ {inv}
    /\ estack' = [j \in DOMAIN estack |->
                    IF estack[j].id = inv.call /\ estack[j].pc = "await" /\ estack[j].i = inv.via
                      THEN [estack[j] EXCEPT !.got = got] ELSE estack[j]]
    /\ elog' = Append(elog, ELog("settle", inv.call, 0, inv.via, "none", inv.prop,
                                 inv.insts, "none", <<>>, r.err))
    /\ UNCHANGED <<eret, eres, ncalls>>
    /\ UNCHANGED <<dbvars, savevars, keyvars, linkvars>>

\* the loop that does not wait for the extender it has invoked
ExtenderAwaited_not(f) == TRUE

\* await extender(instancesToExtend, ctx): the loop goes on once it has settled
ExtenderAwaited(f) == f.got # "none"

ExtendAfterExtender ==
  /\ estack # <<>> /\ ETop.pc = "await" /\ ExtenderAwaited(ETop)
  /\ IF ETop.got \notin {"ok", "none"}
       THEN ESettle(Rejected(ETop.got))
       ELSE /\ estack' = ESetTop([ETop EXCEPT !.pc = "extended"])
            /\ UNCHANGED <<elog, eres, eret>>
  /\ UNCHANGED <<heap, pending, ncalls>>
  /\ UNCHANGED <<dbvars, savevars, keyvars, linkvars>>

\* one resolved value, with the class that constructed it
Value(type, o) == [type |-> type, o |-> o]

\* instances.filter(i => i[property]).map(i => i[property]).flat()
RECURSIVE ExtendedProperties(_, _, _)
ExtendedProperties(h, insts, property) ==
  IF insts = <<>> THEN <<>>
  ELSE LET v == h[Head(insts)].props[property]
           here == CASE v.k = "undef" -> <<>>
                     [] v.k = "num" -> IF v.n = 0 THEN <<>> ELSE <<Value("Number", 0)>>
                     [] OTHER -> [j \in DOMAIN v.a |-> Value(h[v.a[j]].type, v.a[j])]
       IN here \o ExtendedProperties(h, Tail(insts), property)

\* new Set(extendedProperties.map(p => p.constructor)), in insertion order
RECURSIVE Constructors(_, _)
Constructors(values, seen) ==
  IF values = <<>> THEN <<>>
  ELSE IF Head(values).type \in seen THEN Constructors(Tail(values), seen)
  ELSE <<Head(values).type>> \o Constructors(Tail(values), seen \cup {Head(values).type})

\* the recursion that hands every value to every type
ConstructorProperties_all(values, type) == [j \in DOMAIN values |-> values[j].o]

\* extendedProperties.filter(p => p.constructor === constructor)
ConstructorProperties(values, type) ==
  LET Same(v) == v.type = type
      mine == SelectSeq(values, Same)
  IN [j \in DOMAIN mine |-> mine[j].o]

\* if (segments.length === 0) continue; else collect the resolved values
ExtendCollect ==
  /\ estack # <<>> /\ ETop.pc = "extended"
  /\ LET chain == ETop.props[ETop.i]
         values == ExtendedProperties(heap, ETop.insts, Head(chain))
     IN IF Len(chain) = 1
          THEN estack' = ESetTop([ETop EXCEPT !.pc = "chain", !.i = @ + 1])
          ELSE estack' = ESetTop([ETop EXCEPT !.pc = "types", !.ext = values,
                                              !.ctors = Constructors(values, {})])
  /\ UNCHANGED <<heap, pending, elog, eres, eret, ncalls>>
  /\ UNCHANGED <<dbvars, savevars, keyvars, linkvars>>

\* for (const constructor of constructors): extend the values of each class
Remainder_same(chain) == chain

\* const segments = chain.split('.'); const property = segments.shift():
\* what is left of the path is passed on as [segments.join('.')]
Remainder(chain) == Tail(chain)

ExtendRecurse ==
  /\ estack # <<>> /\ ETop.pc = "types"
  /\ IF ETop.ctors = <<>>
       THEN /\ estack' = ESetTop([ETop EXCEPT !.pc = "chain", !.i = @ + 1])
            /\ UNCHANGED <<elog, eres, eret>>
     ELSE LET type == Head(ETop.ctors)
              rest == <<Remainder(ETop.props[ETop.i])>>
              mine == ConstructorProperties(ETop.ext, type)
          IN
          IF ~HasExtend(type) THEN ESettle(Rejected("EXTEND_NOT_IMPLEMENTED"))
          ELSE /\ estack' = Append(ESetTop([ETop EXCEPT !.pc = "child", !.ctors = Tail(@)]),
                                   EFrame(NextId, type, mine, "array", rest))
               /\ elog' = Append(elog, ELog("extend", NextId, ETop.id, ETop.i, type,
                                            "none", mine, "array", rest, "none"))
               /\ UNCHANGED <<eres, eret>>
  /\ UNCHANGED <<heap, pending, ncalls>>
  /\ UNCHANGED <<dbvars, savevars, keyvars, linkvars>>

\* await constructor.extend(...): a rejection propagates
ExtendAfterRecurse ==
  /\ estack # <<>> /\ ETop.pc = "child" /\ eret.st # "none"
  /\ IF eret.st = "err"
       THEN ESettle(eret)
       ELSE /\ estack' = ESetTop([ETop EXCEPT !.pc = "types"])
            /\ eret' = NoRet
            /\ UNCHANGED <<elog, eres>>
  /\ UNCHANGED <<heap, pending, ncalls>>
  /\ UNCHANGED <<dbvars, savevars, keyvars, linkvars>>

NextExt ==
  \/ ExtendCall \/ ExtendEnter \/ ExtendChain \/ ExtenderSettle \/ ExtendAfterExtender
  \/ ExtendCollect \/ ExtendRecurse \/ ExtendAfterRecurse

SpecExt == InitExt /\ [][NextExt]_vars

\* one top-level call on the instances as constructed
ExtendOnce == ncalls = 0 /\ ExtendCall

NextExtLive ==
  \/ ExtendOnce \/ ExtendEnter \/ ExtendChain \/ ExtenderSettle \/ ExtendAfterExtender
  \/ ExtendCollect \/ ExtendRecurse \/ ExtendAfterRecurse

\* every step of a running extend is eventually taken: the extenders settle and
\* the continuations of the awaits run
SpecExtLive == InitExt /\ [][NextExtLive]_vars /\ WF_vars(NextExtLive)

\* ================================================================ Model#save
RowIds == 1..MaxId
Names == {"hat1", "hat2", "hat3"}

\* the instances of the save tests: two with the same id, one without an id
NewHat(n) ==
  CASE n = "hat1" -> [id |-> 1, color |-> "black"]
    [] n = "hat2" -> [id |-> 1, color |-> "gray"]
    [] n = "hat3" -> [id |-> 0, color |-> "green"]

\* the first argument of save: no mode, a valid mode, or another string
SaveModeArgs == {"default", "insert", "update", "upsert", "overwrite"}

\* let mode = 'upsert'; if (typeof arguments[0] === 'string') mode = arguments[0]
SaveMode(arg) == IF arg = "default" THEN "upsert" ELSE arg

\* ['insert', 'update', 'upsert'].includes(mode)
ModeValid(mode) == mode \in {"insert", "update", "upsert"}

\* if (mode === 'upsert') spec.conflict = {target: 'id', action: {update: values}}
Conflict_never(mode) == FALSE

Conflict(mode) == mode = "upsert"

\* the spec save builds from the mode and the values of the instance
SaveSpec(mode, o) ==
  [type |-> IF mode = "update" THEN "update" ELSE "insert",
   where |-> IF mode = "update" THEN o.id ELSE 0,
   conflict |-> Conflict(mode),
   id |-> o.id, color |-> o.color]

\* what the database does with a statement on a table whose id is a serial
\* primary key: the rows and the sequence afterwards, the rows returned, the error
RowsWith(rws, id) == {r \in rws : r.id = id}
Ran(rws, ser, out, err) == [rows |-> rws, serial |-> ser, out |-> out, err |-> err]

\* INSERT ... [ON CONFLICT (id) DO UPDATE SET ...] RETURNING *
RunInsert(spec, rws, ser) ==
  LET id == IF spec.id # 0 THEN spec.id ELSE ser
      next == IF spec.id # 0 THEN ser ELSE ser + 1
      row == [id |-> id, color |-> spec.color]
  IN IF RowsWith(rws, id) = {} THEN Ran(rws \cup {row}, next, {row}, "none")
     ELSE IF spec.conflict
       THEN Ran((rws \ RowsWith(rws, id)) \cup {row}, next, {row}, "none")
     ELSE Ran(rws, next, {}, "UniqueViolation")

\* UPDATE ... WHERE id = ... RETURNING *
RunUpdate(spec, rws, ser) ==
  LET hit == RowsWith(rws, spec.where)
      new == {[id |-> spec.id, color |-> spec.color] : r \in hit}
  IN Ran((rws \ hit) \cup new, ser, new, "none")

\* DELETE ... WHERE id = ...
RunDelete(id, rws, ser) == Ran(rws \ RowsWith(rws, id), ser, {}, "none")

RunStatement(spec, rws, ser) ==
  IF spec.type = "insert" THEN RunInsert(spec, rws, ser) ELSE RunUpdate(spec, rws, ser)

\* Model.exec: the class must be linked to a Db and to a table
ExecGuard ==
  CASE binding = "noDb" -> "DB_MISSING"
    [] binding = "noTable" -> "TABLE_MISSING"
    [] OTHER -> "ok"

\* Model.refreshColumns: it calls this.db.exec without the checks of Model.exec,
\* and sets the static columns when the query resolves
RefreshColumns(accepted) ==
  IF binding = "noDb" THEN [err |-> "TypeError", stmts |-> <<>>, columns |-> columns]
  ELSE IF binding = "noTable" /\ ~accepted
    THEN [err |-> "QueryFailed", stmts |-> <<>>, columns |-> columns]
  ELSE IF ListenerThrows("Q")
    THEN [err |-> "ListenerThrew", stmts |-> <<"columns">>, columns |-> columns]
  ELSE [err |-> "none", stmts |-> <<"columns">>, columns |-> TRUE]

NeedsRefresh_always(cols) == TRUE

\* if (!this.constructor.columns)
NeedsRefresh(cols) == ~cols

\* if (!this.constructor.columns) await this.constructor.refreshColumns(ctx)
SaveRefresh(accepted) ==
  IF NeedsRefresh(columns) THEN RefreshColumns(accepted)
  ELSE [err |-> "none", stmts |-> <<>>, columns |-> columns]

Outcome(st, v, rws, ser, cols, o, stmts) ==
  [st |-> st, v |-> v, rows |-> rws, serial |-> ser, columns |-> cols, obj |-> o,
   stmts |-> stmts]

\* result.rows.length === 0 in the update mode
NotFound_never(mode, out) == FALSE

NotFound(mode, out) == mode = "update" /\ out = {}

\* save(): the whole of it, for an instance o
SaveOutcome(o, arg, accepted) ==
  LET mode == SaveMode(arg)
      fresh == SaveRefresh(accepted)
      ran == RunStatement(SaveSpec(mode, o), rows, serial)
      row == CHOOSE r \in ran.out : TRUE
  IN IF ~ModeValid(mode)
       THEN Outcome("rejected", "MODE_INVALID", rows, serial, columns, o, <<>>)
     ELSE IF fresh.err # "none"
       THEN Outcome("rejected", fresh.err, rows, serial, fresh.columns, o, fresh.stmts)
     ELSE IF ExecGuard # "ok"
       THEN Outcome("rejected", ExecGuard, rows, serial, fresh.columns, o, fresh.stmts)
     ELSE IF ListenerThrows("Q")
       THEN Outcome("rejected", "ListenerThrew", ran.rows, ran.serial, fresh.columns, o,
                    Append(fresh.stmts, "write"))
     ELSE IF ran.err # "none"
       THEN Outcome("rejected", ran.err, ran.rows, ran.serial, fresh.columns, o,
                    Append(fresh.stmts, "write"))
     ELSE IF NotFound(mode, ran.out)
       THEN Outcome("rejected", "NOT_FOUND", ran.rows, ran.serial, fresh.columns, o,
                    Append(fresh.stmts, "write"))
     ELSE Outcome("resolved", "ok", ran.rows, ran.serial, fresh.columns,
                  [id |-> row.id, color |-> row.color], Append(fresh.stmts, "write"))

Op(op, inst, arg, r, o) ==
  [op |-> op, inst |-> inst, arg |-> arg, st |-> r.st, v |-> r.v, stmts |-> r.stmts,
   rowsBefore |-> rows, objBefore |-> o,
   lifeBefore |-> IF inst \in Names THEN life[inst] ELSE "none",
   columnsBefore |-> columns]

NoOp ==
  [op |-> "none", inst |-> "none", arg |-> "none", st |-> "none", v |-> "none",
   stmts |-> <<>>, rowsBefore |-> {}, objBefore |-> [id |-> 0, color |-> "none"],
   lifeBefore |-> "none", columnsBefore |-> FALSE]

InitSave ==
  /\ NoDb /\ NoExt /\ NoKeys /\ NoLink
  /\ eret = [st |-> "none", v |-> "none"] /\ eres = [st |-> "none", v |-> "none"]
  /\ listener \in {"none", "Q"}
  /\ binding \in {"bound", "noDb", "noTable"}
  /\ columns \in BOOLEAN
  /\ rows = {} /\ serial = 1
  /\ objs = [n \in Names |-> NewHat(n)]
  /\ life = [n \in Names |-> "constructed"]
  /\ last = NoOp
  /\ latest = [id \in RowIds |-> "none"]
  /\ onlyDefault = TRUE

\* instance.save(), instance.save(mode), insert(), update(), upsert()
Save ==
  \E n \in Names : \E arg \in SaveModeArgs : \E accepted \in BOOLEAN :
    LET r == SaveOutcome(objs[n], arg, accepted) IN
    /\ SaveMode(arg) = "update" => objs[n].id # 0
    /\ objs[n].id = 0 => serial \in RowIds
    /\ rows' = r.rows /\ serial' = r.serial /\ columns' = r.columns
    /\ objs' = [objs EXCEPT ![n] = r.obj]
    /\ life' = IF r.st = "resolved" THEN [life EXCEPT ![n] = "persisted"] ELSE life
    /\ last' = Op("save", n, arg, r, objs[n])
    /\ IF arg = "default" /\ r.st = "resolved"
         THEN latest' = [latest EXCEPT ![r.obj.id] = r.obj.color] /\ UNCHANGED onlyDefault
         ELSE onlyDefault' = FALSE /\ UNCHANGED latest
    /\ UNCHANGED binding
    /\ UNCHANGED <<dbvars, extvars, keyvars, linkvars>>

\* a static operation, or the delete of an instance: Model.exec throws when the
\* class is not linked, else the statement is executed
ExecOutcome(ran) ==
  IF ExecGuard # "ok"
    THEN Outcome("thrown", ExecGuard, rows, serial, columns, NoOp.objBefore, <<>>)
  ELSE IF ListenerThrows("Q")
    THEN Outcome("rejected", "ListenerThrew", ran.rows, ran.serial, columns, NoOp.objBefore, <<"statement">>)
  ELSE Outcome("resolved", "ok", ran.rows, ran.serial, columns, NoOp.objBefore, <<"statement">>)

\* Model.count, find, findOne, update and delete
StaticOps == {"count", "find", "findOne", "update", "delete"}
Static ==
  \E op \in StaticOps : \E id \in RowIds :
    LET ran == CASE op = "delete" -> RunDelete(id, rows, serial)
                 [] op = "update" ->
                      RunUpdate([where |-> id, id |-> id, color |-> "black"], rows, serial)
                 [] OTHER -> Ran(rows, serial, {}, "none")
        r == ExecOutcome(ran)
    IN
    /\ rows' = r.rows
    /\ last' = Op(op, "none", "none", r, NoOp.objBefore)
    /\ onlyDefault' = FALSE
    /\ UNCHANGED <<binding, columns, serial, objs, life, latest>>
    /\ UNCHANGED <<dbvars, extvars, keyvars, linkvars>>

\* instance.delete(): this.constructor.delete({where: {id: this.id}}, ctx)
Delete ==
  \E n \in Names :
    LET r == ExecOutcome(RunDelete(objs[n].id, rows, serial)) IN
    /\ objs[n].id # 0
    /\ rows' = r.rows
    /\ life' = IF r.st = "resolved" /\ life[n] = "persisted"
                 THEN [life EXCEPT ![n] = "deleted"] ELSE life
    /\ last' = Op("delete", n, "none", r, objs[n])
    /\ onlyDefault' = FALSE
    /\ UNCHANGED <<binding, columns, serial, objs, latest>>
    /\ UNCHANGED <<dbvars, extvars, keyvars, linkvars>>

\* Model.refreshColumns() called by the application: not async, so a missing Db
\* makes it throw
Refresh ==
  \E accepted \in BOOLEAN :
    LET fresh == RefreshColumns(accepted)
        r == Outcome(IF fresh.err = "none" THEN "resolved"
                     ELSE IF fresh.err = "TypeError" THEN "thrown" ELSE "rejected",
                     IF fresh.err = "none" THEN "ok" ELSE fresh.err,
                     rows, serial, fresh.columns, NoOp.objBefore, fresh.stmts)
    IN
    /\ columns' = r.columns
    /\ last' = Op("refreshColumns", "none", "none", r, NoOp.objBefore)
    /\ onlyDefault' = FALSE
    /\ UNCHANGED <<binding, rows, serial, objs, life, latest>>
    /\ UNCHANGED <<dbvars, extvars, keyvars, linkvars>>

\* delete Hat.columns
Clear ==
  /\ columns
  /\ columns' = FALSE
  /\ last' = Op("clear", "none", "none",
                Outcome("resolved", "ok", rows, serial, FALSE, NoOp.objBefore, <<>>),
                NoOp.objBefore)
  /\ onlyDefault' = FALSE
  /\ UNCHANGED <<binding, rows, serial, objs, life, latest>>
  /\ UNCHANGED <<dbvars, extvars, keyvars, linkvars>>

NextSave == Save \/ Static \/ Delete \/ Refresh \/ Clear

SpecSave == InitSave /\ [][NextSave]_vars

\* ------------------------------------------------------------ claims on save
LastSave == last.op = "save"
LastMode == SaveMode(last.arg)
Working == binding = "bound"

\* C13: while every operation so far was a successful save without a mode, the
\* table holds exactly one row for each saved id and no other row, that row has
\* the values of the latest save of that id, and such a save on a linked model
\* with no throwing listener succeeds whether or not the id is already stored
C13_DefaultIsUpsert ==
  /\ onlyDefault =>
       /\ \A id \in RowIds :
            IF latest[id] = "none" THEN RowsWith(rows, id) = {}
            ELSE RowsWith(rows, id) = {[id |-> id, color |-> latest[id]]}
       /\ \A r \in rows : r.id \in RowIds
  /\ (LastSave /\ last.arg = "default" /\ Working /\ listener = "none") =>
       last.st = "resolved"

\* hat1 {id: 1, black} saved, then hat2 {id: 1, gray}: one row, gray
C13_Witness ==
  /\ onlyDefault /\ LastSave /\ last.inst = "hat2"
  /\ last.rowsBefore = {[id |-> 1, color |-> "black"]}
  /\ rows = {[id |-> 1, color |-> "gray"]}

\* C14: on a linked model, save('update') of an instance whose id has no row
\* rejects with NOT_FOUND, adds no row and leaves the instance as it was; when
\* the row exists it is overwritten and the number of rows stays the same
C14_UpdateNotFound ==
  (LastSave /\ LastMode = "update" /\ Working) =>
    IF RowsWith(last.rowsBefore, last.objBefore.id) = {}
      THEN /\ last.st = "rejected" /\ last.v = "NOT_FOUND"
           /\ rows = last.rowsBefore
           /\ objs[last.inst] = last.objBefore
      ELSE /\ RowsWith(rows, last.objBefore.id) = {last.objBefore}
           /\ Cardinality(rows) = Cardinality(last.rowsBefore)

\* C15: on a linked model, save('insert') of an instance whose id has a row
\* rejects with the unique violation of the database and the rows stay as they were
C15_InsertExisting ==
  (LastSave /\ LastMode = "insert" /\ Working
     /\ last.objBefore.id # 0 /\ RowsWith(last.rowsBefore, last.objBefore.id) # {}) =>
    /\ last.st = "rejected" /\ last.v = "UniqueViolation"
    /\ rows = last.rowsBefore

\* C16: an instance that was deleted stays deleted whatever is called on it
C16_NoWayBack ==
  [][\A n \in Names : life[n] = "deleted" => life'[n] = "deleted"]_vars

\* C17: an operation (a save with a valid mode included) on a model without a Db
\* fails with DB_MISSING, on a model with a Db and no table with TABLE_MISSING,
\* and in both cases no statement was executed
C17_NotLinked ==
  (last.op \notin {"none", "refreshColumns", "clear"} /\ ~Working
     /\ (LastSave => ModeValid(LastMode))) =>
    /\ last.st \in {"rejected", "thrown"}
    /\ last.v = ExecGuard
    /\ last.stmts = <<>>

\* C18: no operation fails by throwing at the call site
C18_NeverThrows == last.st # "thrown"

\* ============================================================ toSnakeCaseDeep
\* keys of the specs of the tests, and what _.snakeCase makes of each
Keys == {"isActive", "is_active", "$or", "$notNull"}

snakeCase(k) ==
  CASE k = "isActive" -> "is_active"
    [] k = "is_active" -> "is_active"
    [] k = "$or" -> "or"
    [] k = "$notNull" -> "not_null"
    [] OTHER -> k

\* k.startsWith('$')
startsWithDollar_never(k) == FALSE

startsWithDollar(k) == k \in {"$or", "$notNull"}

\* objects and arrays as nodes; the entries of an array are keyed by index
Obj1(k, v) == Node("obj", <<Entry(k, v)>>)
Obj2(k1, v1, k2, v2) == Node("obj", <<Entry(k1, v1), Entry(k2, v2)>>)
Arr1(v) == Node("arr", <<Entry("0", v)>>)
Arr2(v, w) == Node("arr", <<Entry("0", v), Entry("1", w)>>)

\* pairs of keys of one object: two that collide once converted, in both orders,
\* and a helper next to a plain key
KeyPairs == {<<"isActive", "is_active">>, <<"is_active", "isActive">>, <<"$or", "isActive">>}

\* the targets: every value of at most the given depth
RECURSIVE Targets(_)
Targets(depth) ==
  IF depth = 0 THEN {Leaf("number"), Leaf("null"), Node("obj", <<>>)}
  ELSE LET below == Targets(depth - 1) IN
       below
         \cup {Obj1(k, v) : k \in Keys, v \in below}
         \cup {Obj2(p[1], v, p[2], Leaf("number")) : p \in KeyPairs, v \in below}
         \cup {Arr1(v) : v \in below}
         \cup {Arr2(v, Obj1("isActive", Leaf("null"))) : v \in below}

\* result[key] = value of a plain object: a key already there keeps its place
HasKey(kids, k) == \E i \in DOMAIN kids : kids[i].k = k
Put(kids, k, v) ==
  IF HasKey(kids, k)
    THEN [i \in DOMAIN kids |-> IF kids[i].k = k THEN Entry(k, v) ELSE kids[i]]
    ELSE Append(kids, Entry(k, v))

\* _.mapKeys(target, (v, k) => k.startsWith('$') ? k : _.snakeCase(k))
RECURSIVE mapKeys(_, _)
mapKeys(kids, n) ==
  IF n = 0 THEN <<>>
  ELSE Put(mapKeys(kids, n - 1),
           IF startsWithDollar(kids[n].k) THEN kids[n].k ELSE snakeCase(kids[n].k),
           kids[n].v)

RECURSIVE toSnakeCaseDeep(_)
toSnakeCaseDeep(tgt) ==
  IF tgt.t = "arr"
    THEN Node("arr", [i \in DOMAIN tgt.kids |->
                        Entry(tgt.kids[i].k, toSnakeCaseDeep(tgt.kids[i].v))])
  ELSE IF tgt.t # "obj" \/ tgt.kids = <<>> THEN tgt
  ELSE LET renamed == mapKeys(tgt.kids, Len(tgt.kids)) IN
       Node("obj", [i \in DOMAIN renamed |->
                      Entry(renamed[i].k, toSnakeCaseDeep(renamed[i].v))])

InitKeys ==
  /\ NoDb /\ NoExt /\ NoSave /\ NoLink
  /\ eret = [st |-> "none", v |-> "none"] /\ eres = [st |-> "none", v |-> "none"]
  /\ listener = "none"
  /\ target \in Targets(MaxDepth)
  /\ converted = Leaf("undefined")

\* convertKeys.toSnakeCaseDeep(target)
Convert ==
  /\ converted = Leaf("undefined")
  /\ converted' = toSnakeCaseDeep(target)
  /\ UNCHANGED <<target, dbvars, extvars, savevars, linkvars>>

NextKeys == Convert

SpecKeys == InitKeys /\ [][NextKeys]_vars

\* ------------------------------------------------- claims on toSnakeCaseDeep
\* the paths of keys from the root of a value to each of its entries
RECURSIVE KeyPaths(_)
KeyPaths(node) ==
  UNION {{<<node.kids[i].k>>} \cup {<<node.kids[i].k>> \o p : p \in KeyPaths(node.kids[i].v)}
         : i \in DOMAIN node.kids}

\* the arrays on the way: the paths whose last step is an index
RECURSIVE IndexPaths(_)
IndexPaths(node) ==
  UNION {(IF node.t = "arr" THEN {<<node.kids[i].k>>} ELSE {})
           \cup {<<node.kids[i].k>> \o p : p \in IndexPaths(node.kids[i].v)}
         : i \in DOMAIN node.kids}

\* a path with every step that is neither an index nor a '$' key in snake case
Expected(path, indexed) ==
  [i \in DOMAIN path |->
     IF SubSeq(path, 1, i) \in indexed \/ path[i] \in {"$or", "$notNull"}
       THEN path[i]
       ELSE snakeCase(path[i])]

\* two keys of one object, somewhere in the value, that are one key once renamed
RECURSIVE Collides(_)
Collides(node) ==
  \/ /\ node.t = "obj"
     /\ \E i \in DOMAIN node.kids : \E j \in DOMAIN node.kids :
          i # j /\ Expected(<<node.kids[i].k>>, {}) = Expected(<<node.kids[j].k>>, {})
  \/ \E i \in DOMAIN node.kids : Collides(node.kids[i].v)

\* C20: every key of the result, at every depth, is a key of the target with
\* the '$' keys as they were and every other key in snake case, below a '$' key
\* and inside arrays included; and no key of the target is lost unless two keys
\* of one object become the same key
C20_DollarKeysKept ==
  converted # Leaf("undefined") =>
    LET expected == {Expected(p, IndexPaths(target)) : p \in KeyPaths(target)} IN
    /\ KeyPaths(converted) \subseteq expected
    /\ ~Collides(target) => KeyPaths(converted) = expected

\* where: {$or: [{isActive: 1}, {isActive: null}]}
C20_Witness ==
  /\ target = Obj1("$or", Arr2(Obj1("isActive", Leaf("number")), Obj1("isActive", Leaf("null"))))
  /\ converted = Obj1("$or", Arr2(Obj1("is_active", Leaf("number")), Obj1("is_active", Leaf("null"))))

\* ------------------------------------------------------- claims on Model.extend
LogOf(ev) == {j \in DOMAIN elog : elog[j].ev = ev}
Counter(o) == heap[o].props["incrementedCounter"]

\* the flattened p values of a list of instances, as a set of instances, read
\* off the heap without the code's array pipeline
ValuesOf(insts, p) ==
  {o \in Objs : \E j \in DOMAIN insts : \E x \in DOMAIN heap[insts[j]].props[p].a :
                  heap[insts[j]].props[p].a[x] = o}
HoldsNumber(insts, p) ==
  \E j \in DOMAIN insts : heap[insts[j]].props[p].k = "num" /\ heap[insts[j]].props[p].n # 0
Registered(model, property) ==
  model \in {"Fedora", "Nested", "Manager"} /\ property \in DOMAIN Extenders(model)

\* C7: whatever sequence of extend calls has run (top-level or dotted, also
\* through a referenced instance that several source instances share), the
\* side effect of the counter extender has been applied at most once to an
\* instance: its incrementedCounter is undefined or 1, never 2.
C7_SideEffectOnce ==
  \A o \in Objs : Counter(o).k = "num" => Counter(o).n = 1

\* C8: within one extend call the extender of property k and its whole chain
\* have settled before the extender of property k+1 is invoked, and no two
\* extender invocations of the same call are pending at the same time.
C8_Sequential ==
  /\ \A inv1 \in pending : \A inv2 \in pending : inv1.call = inv2.call => inv1 = inv2
  /\ \A a \in LogOf("invoke") : \A b \in LogOf("invoke") :
       (elog[a].id = elog[b].id /\ elog[a].via < elog[b].via) =>
         /\ a < b
         /\ \E x \in LogOf("settle") :
              a < x /\ x < b /\ elog[x].id = elog[a].id /\ elog[x].via = elog[a].via
         /\ \A c \in LogOf("extend") :
              (elog[c].parent = elog[a].id /\ elog[c].via = elog[a].via) =>
                \E r \in LogOf("return") : c < r /\ r < b /\ elog[r].id = elog[c].id

\* one call has invoked the extenders of two properties, the first with a chain
C8_Witness ==
  \E a \in LogOf("invoke") : \E b \in LogOf("invoke") : \E c \in LogOf("extend") :
    /\ elog[a].id = elog[b].id /\ elog[a].via = 1 /\ elog[b].via = 2
    /\ elog[c].parent = elog[a].id /\ elog[c].via = 1

\* C9: for a path p.rest, a recursive extend call is made only after p is
\* resolved, once per model type among the flattened p values of the supplied
\* instances, on exactly the values of that type and with the path rest; a
\* call that completes has made one for every type, and the call fails with
\* EXTEND_NOT_IMPLEMENTED when it comes to a value whose type has no extend.
C9_DottedPath ==
  /\ \A c \in LogOf("extend") : elog[c].parent # 0 =>
       \E e \in LogOf("extend") :
         /\ e < c /\ elog[e].id = elog[c].parent
         /\ LET path == elog[e].props[elog[c].via]
                p == Head(path)
            IN /\ elog[c].props = <<Tail(path)>>
               /\ Elems(elog[c].insts)
                    = {o \in ValuesOf(elog[e].insts, p) : heap[o].type = elog[c].model}
               /\ elog[c].insts # <<>>
               /\ \A d \in LogOf("extend") :
                    (elog[d].parent = elog[c].parent /\ elog[d].via = elog[c].via
                       /\ elog[d].model = elog[c].model) => d = c
               /\ \A inv \in pending : ~(inv.call = elog[e].id /\ inv.via = elog[c].via)
               /\ \/ \E a \in LogOf("invoke") : \E x \in LogOf("settle") :
                       /\ a < x /\ x < c /\ elog[x].err = "none"
                       /\ elog[a].id = elog[e].id /\ elog[a].via = elog[c].via
                       /\ elog[x].id = elog[e].id /\ elog[x].via = elog[c].via
                  \/ \A j \in DOMAIN elog[e].insts :
                       heap[elog[e].insts[j]].props[p].k # "undef"
  /\ \A r \in LogOf("return") : \A e \in LogOf("extend") :
       (elog[e].id = elog[r].id /\ elog[e].kind = "array" /\ elog[e].insts # <<>>) =>
         \A i \in DOMAIN elog[e].props :
           LET path == elog[e].props[i]
               p == Head(path)
               Child(c) == elog[c].parent = elog[e].id /\ elog[c].via = i
           IN (Len(path) > 1 /\ i <= elog[r].via) =>
                /\ (elog[r].err = "none" \/ i < elog[r].via) =>
                     /\ ~HoldsNumber(elog[e].insts, p)
                     /\ \A o \in ValuesOf(elog[e].insts, p) :
                          \E c \in LogOf("extend") : Child(c) /\ elog[c].model = heap[o].type
                /\ (/\ i = elog[r].via
                    /\ HoldsNumber(elog[e].insts, p)
                    /\ Registered(elog[e].model, p)
                    /\ \A c \in LogOf("extend") : Child(c) =>
                         \E q \in LogOf("return") :
                           elog[q].id = elog[c].id /\ elog[q].err = "none")
                     => elog[r].err = "EXTEND_NOT_IMPLEMENTED"
                /\ (/\ i = elog[r].via
                    /\ elog[r].err = "EXTEND_NOT_IMPLEMENTED"
                    /\ \A c \in LogOf("extend") : Child(c) =>
                         \E q \in LogOf("return") :
                           elog[q].id = elog[c].id /\ elog[q].err = "none")
                     => HoldsNumber(elog[e].insts, p)

\* a path whose values are of two model types has been extended to the end
C9_Witness ==
  \E c \in LogOf("extend") : \E d \in LogOf("extend") : \E r \in LogOf("return") :
    /\ elog[c].parent = 1 /\ elog[d].parent = 1 /\ elog[c].via = elog[d].via
    /\ elog[c].model # elog[d].model
    /\ elog[r].id = 1 /\ elog[r].err = "none"

\* C10: a call with a non-empty instance list that comes to a top-level
\* segment with no registered extender on the model, the model having an
\* extenders mapping or not, fails with EXTENDER_MISSING and no other error.
C10_ExtenderMissing ==
  \A r \in LogOf("return") : \A e \in LogOf("extend") :
    (/\ elog[e].id = elog[r].id /\ elog[e].kind = "array" /\ elog[e].insts # <<>>
     /\ elog[r].via \in DOMAIN elog[e].props
     /\ ~Registered(elog[e].model, Head(elog[e].props[elog[r].via])))
      => elog[r].err = "EXTENDER_MISSING"

\* C11: within one extend call the extender of a top-level segment is invoked
\* at most once, however many of the requested paths begin with that segment,
\* for any extender and any instance list.
C11_DuplicatesCollapsed ==
  \A a \in LogOf("invoke") : \A b \in LogOf("invoke") :
    (elog[a].id = elog[b].id /\ elog[a].prop = elog[b].prop) => a = b

\* C12: properties may be a single string (one path) or a sequence; the call
\* fails with PROPERTIES_INVALID exactly when properties is supplied and is
\* neither a string nor a sequence.
C12_StringOrSequence ==
  \A r \in LogOf("return") : \A e \in LogOf("extend") :
    (elog[e].id = elog[r].id /\ elog[e].parent = 0) =>
      ((elog[r].err = "PROPERTIES_INVALID") <=> (elog[e].kind \in {"number", "zero"}))

\* C19: convertSpec fails with ARGUMENTS_INVALID for every spec that is not an
\* object (undefined, null, number, boolean, string); exec fails with
\* ARGUMENTS_INVALID for every first argument that is neither a string nor an
\* object, acquiring no connection and executing no statement.
C19_ArgumentsInvalid ==
  \A t \in Tasks : \A k \in DOMAIN calls[t] :
    /\ (calls[t][k].kind = "convertSpec" /\ calls[t][k].arg # "object") =>
         (calls[t][k].st = "rejected" /\ calls[t][k].v = "ARGUMENTS_INVALID")
    /\ (calls[t][k].kind = "exec" /\ calls[t][k].arg \notin {"string", "object"}) =>
         /\ By(t, "acquire", k) = {} /\ By(t, "query", k) = {}
         /\ IsDone(t, k) =>
              (calls[t][k].st = "rejected" /\ calls[t][k].v = "ARGUMENTS_INVALID")

\* C29: an exec call whose query has settled settles as the query did, with its
\* result or with its error, and when it acquired its connection the connection
\* is back in the pool, whatever the execFinish listener does
C29_ListenerCannotBreakExec ==
  \A t \in Tasks : \A k \in ExecCalls(t) : \A i \in By(t, "result", k) :
    IsDone(t, k) =>
      /\ calls[t][k].st = IF trace[t][i].ok THEN "resolved" ELSE "rejected"
      /\ calls[t][k].v = IF trace[t][i].ok THEN calls[t][k].stmt
                         ELSE QueryError(calls[t][k].stmt)
      /\ ~calls[t][k].hadClient => pool[calls[t][k].conn] = 0

\* C25: on a linked model a save with a valid mode sends the column query, and
\* before anything else, exactly when the class has no list of columns; the list
\* is there after a column query that succeeded, and only a refresh (of a save
\* or of the application) or the deletion of the list changes it
C25_ColumnsWhenMissing ==
  /\ (LastSave /\ ModeValid(LastMode) /\ Working) =>
       /\ ("columns" \in Elems(last.stmts)) <=> ~last.columnsBefore
       /\ \A i \in DOMAIN last.stmts : last.stmts[i] = "columns" => i = 1
       /\ last.columnsBefore => columns
       /\ (last.st = "resolved") => columns
  /\ (last.op \notin {"none", "save", "refreshColumns", "clear"}) =>
       columns = last.columnsBefore

\* a save of a class that has its columns sent only the write
C25_Witness ==
  /\ LastSave /\ last.st = "resolved" /\ last.columnsBefore
  /\ last.stmts = <<"write">> /\ last.rowsBefore # {}

\* the save of a class without columns sent both statements
C25_WitnessFirst ==
  /\ LastSave /\ last.st = "resolved" /\ ~last.columnsBefore
  /\ last.stmts = <<"columns", "write">>

\* each level of the recursion was given one segment less than the path its
\* caller is working on
OneSegmentLess ==
  \A d \in 2..Len(estack) :
    /\ Len(estack[d].props) = 1
    /\ Len(estack[d].props[1]) + 1 = Len(estack[d - 1].props[estack[d - 1].i])

\* an invoked extender that does not settle: it needs more instances than the
\* heap has room for
NeverSettles ==
  \E inv \in pending : ApplyExtender(inv.kind, heap, inv.insts, inv.prop).err = "HeapFull"

\* C27: an extend call that is running settles provided its extenders settle,
\* and its recursion is never deeper than the path it was given is long, each
\* level consuming one segment
C27_Terminates ==
  /\ []OneSegmentLess
  /\ [](\A d \in DOMAIN estack :
          d = 1 \/ \E j \in DOMAIN estack[1].props : d <= Len(estack[1].props[j]))
  /\ (estack # <<>>) ~> (estack = <<>> \/ NeverSettles)

\* Manager.extend([m], ['hat.nested.incrementedCounter']) has resolved after
\* recursing through Fedora into Nested
C27_Witness ==
  /\ estack = <<>> /\ eres.st = "ok"
  /\ \E a \in LogOf("extend") : \E b \in LogOf("extend") :
       /\ elog[a].parent # 0 /\ elog[b].parent = elog[a].id
       /\ elog[b].model = "Nested"

\* the connection the transaction of a chain holds: its transact call has
\* connected and has not settled
Holds(t, c) ==
  \E i \in DOMAIN stack[t] :
    stack[t][i].kind = "transact" /\ stack[t][i].ctxClient = 0 /\ stack[t][i].client = c

\* a statement of a chain is being executed on the connection
Executing(u, c) ==
  \E i \in DOMAIN stack[u] :
    stack[u][i].kind = "exec" /\ stack[u][i].pc = "settle" /\ stack[u][i].client = c

\* C26: while a transaction holds its connection the pool has it checked out to
\* that chain, no other chain holds it or executes a statement on it, and in the
\* chain itself only the calls given the ctx of the transaction use it
C26_Exclusive ==
  \A t \in Chains : \A c \in Conns :
    Holds(t, c) =>
      /\ pool[c] = t
      /\ \A u \in Chains \ {t} : ~Holds(u, c) /\ ~Executing(u, c)
      /\ \A i \in DOMAIN stack[t] :
           (stack[t][i].kind = "exec" /\ stack[t][i].client = c) => stack[t][i].ctxClient = c

\* two transactions at once, one executing a statement of its function
C26_Witness ==
  \E c \in Conns : \E d \in Conns \ {c} :
    /\ Holds(1, c) /\ Holds(2, d)
    /\ \E i \in DOMAIN stack[1] :
         /\ stack[1][i].kind = "exec" /\ stack[1][i].pc = "settle"
         /\ stack[1][i].client = c /\ stack[1][i].stmt = "Q"

\* the connection is checked out when the event at a position of the trace happens
CheckedOut(t, c, i) ==
  Cardinality({j \in At(t, "acquire", c) : j < i})
    > Cardinality({j \in At(t, "release", c) : j < i})

\* C30: the ctx object of the caller never has a client, whatever transact did
\* with it: each call made with it is a call without a client, which acquires
\* its own connection before it executes anything, and no statement is executed
\* on a connection that has been released
C30_CallerCtxUntouched ==
  \A t \in Tasks :
    /\ stack[t][1].ctxClient = 0
    /\ \A k \in TopCalls(t) :
         /\ ~calls[t][k].hadClient
         /\ (calls[t][k].kind = "exec" /\ By(t, "query", k) # {}) => By(t, "acquire", k) # {}
         /\ (calls[t][k].kind = "transact" /\ OwnExec(t, k, "BEGIN") # {}) =>
              By(t, "acquire", k) # {}
    /\ \A i \in DOMAIN trace[t] :
         trace[t][i].ev = "query" => CheckedOut(t, trace[t][i].conn, i)

\* transact resolved and released its connection; the exec called afterwards
\* with the same ctx acquired a connection of its own
C30_Witness ==
  \E t \in Tasks : \E k \in TopCalls(t) : \E e \in TopCalls(t) :
    /\ k < e
    /\ calls[t][k].kind = "transact" /\ calls[t][k].st = "resolved"
    /\ At(t, "release", calls[t][k].conn) # {}
    /\ calls[t][e].kind = "exec" /\ calls[t][e].st = "resolved"
    /\ By(t, "acquire", e) # {}

\* ---------------------------------------------------------------------------
\* The relationship linker: link, the reference extenders and isReferenced
\* ---------------------------------------------------------------------------
\* the classes of the link tests: Fedora extends Hat, Manager extends User
Linkable == {"Fedora", "Manager"}
LinkClasses == {"Hat", "User", "Fedora", "Manager"}
Parent(class) == IF class = "Fedora" THEN "Hat" ELSE "User"
Table(class) == IF class \in {"Hat", "Fedora"} THEN "hats" ELSE "users"
\* the names an extender can be registered under, and the functions behind them
ExtNames == {"existing", "hat", "isReferenced"}
NoFns == [n \in ExtNames |-> "none"]
Custom(names) == [n \in ExtNames |-> IF n \in names THEN "custom" ELSE "none"]
\* ids of hats; Null stands for null and undefined
HatIds == {0, 1}
Null == 0 - 1
\* the connection of an enclosing transaction, 0 for a ctx without client
CtxClients == {0, 1}
\* a foreign key as the information_schema query returns it
Reference(table, column, foreign) ==
  [table_schema |-> "public", table_name |-> table, column_name |-> column,
   foreign_table_name |-> foreign]
UsersHat == Reference("users", "hat_id", "hats")
OrdersHat == Reference("orders", "hat_id", "hats")
UsersGroup == Reference("users", "group_id", "groups")
Schemas == {{}, {UsersHat}, {UsersHat, OrdersHat, UsersGroup}}
\* class.extenders as JavaScript resolves it: the own property, else the parent's
Visible(reg, class) ==
  IF reg[class].own THEN reg[class].fns
  ELSE IF class \in Linkable /\ reg[Parent(class)].own THEN reg[Parent(class)].fns
  ELSE NoFns
\* db.exec(statement, ctx): on ctx.client when there is one, else on a pool connection
Statement(kind, client) ==
  [stmt |-> kind, conn |-> client, acquired |-> client = 0]
\* what each call site hands on as ctx
GetReferencesCtx(client) == client
LinkCtx(client) == client
RefreshColumnsCtx_dropped(client) == 0
RefreshColumnsCtx(client) == client
SaveExecCtx(client) == client
DeleteExecCtx(client) == client
FindExecCtx(client) == client
FindExtendCtx(client) == client
ExtenderCtx(client) == client
ReferenceFindCtx(client) == client
IsReferencedExecCtx(client) == client
\* an instance of Fedora (id) or Manager (hatId), with the extended properties
fromRow(id, hatId) ==
  [id |-> id, hatId |-> hatId, hat |-> Null, isReferenced |-> "unset"]
NoInstances == <<>>
Lists(instances) ==
  {<<>>} \cup {<<a>> : a \in instances} \cup {<<a, b>> : a, b \in instances}
Fedoras == Lists({fromRow(id, Null) : id \in HatIds \cup {Null}})
Managers == Lists({fromRow(Null, h) : h \in HatIds \cup {Null}})
\* _.chain(instances).map(key).uniq().filter(_.identity): the truthy values
identity(v) == v # Null /\ v # 0
Collected(values) == {v \in values : identity(v)}
\* getReferences: no statement without models, else one
getReferences(models, client) ==
  IF models = {} THEN <<>> ELSE <<Statement("references", GetReferencesCtx(client))>>
\* the own extenders mapping of a model, copied from the parent when missing
OwnExtenders(reg, model) ==
  IF reg[model].own THEN reg
  ELSE [reg EXCEPT ![model] = [own |-> TRUE, fns |-> Visible(reg, Parent(model))]]
\* some_user_id => someUser
camelCase(column) ==
  CASE column = "hat_id" -> "hat"
    [] column = "group_id" -> "group"
addIdExtenders(reg, model, refs, dbModels) ==
  LET relatedReferences == {r \in refs : r.table_name = Table(model)}
      registered == {r \in relatedReferences :
                       \E m \in dbModels : Table(m) = r.foreign_table_name}
      properties == {camelCase(r.column_name) : r \in registered}
      own == OwnExtenders(reg, model)
  IN  [own EXCEPT ![model].fns =
         [n \in ExtNames |-> IF n \in properties THEN "reference" ELSE @[n]]]
addIsReferencedExtender(reg, model) ==
  [OwnExtenders(reg, model) EXCEPT ![model].fns.isReferenced = "isReferenced"]
RECURSIVE LinkAll(_, _, _, _)
LinkAll(reg, todo, refs, dbModels) ==
  IF todo = {} THEN reg
  ELSE LET model == CHOOSE m \in todo : TRUE
       IN  LinkAll(addIsReferencedExtender(addIdExtenders(reg, model, refs, dbModels), model),
                   todo \ {model}, refs, dbModels)
\* the rows a statement of the reference extender's find returns
FindByIds(tbls, ids) == tbls.hats \cap ids
\* the reference extender registered under "hat" for a model of users
ReferenceExtender(instances, client, tbls) ==
  LET ids == Collected({instances[i].hatId : i \in DOMAIN instances})
      found == FindByIds(tbls, ids)
  IN  IF instances = <<>> \/ ids = {}
      THEN [out |-> instances, stmts |-> <<>>]
      ELSE [out |-> [i \in DOMAIN instances |->
                       [instances[i] EXCEPT !.hat =
                          IF instances[i].hatId \in found THEN instances[i].hatId ELSE Null]],
            stmts |-> <<Statement("find", ReferenceFindCtx(client))>>]
\* the references to the table of a model, and the ids their columns hold
Incoming(refs, model) == {r \in refs : r.foreign_table_name = Table(model)}
Referencing(tbls, related) ==
  UNION {tbls[r.table_name] : r \in related}
NoReferences_never(related) == FALSE
NoReferences(related) == related = {}
isReferencedExtender(instances, client, tbls, related) ==
  LET ids == Collected({instances[i].id : i \in DOMAIN instances})
      defaulted == [i \in DOMAIN instances |-> [instances[i] EXCEPT !.isReferenced = "false"]]
      referencedIds == ids \cap Referencing(tbls, related)
  IN  IF instances = <<>> THEN [out |-> instances, stmts |-> <<>>, queries |-> 0]
      ELSE IF NoReferences(related) \/ ids = {}
      THEN [out |-> defaulted, stmts |-> <<>>, queries |-> 0]
      ELSE [out |-> [i \in DOMAIN instances |->
                       [instances[i] EXCEPT !.isReferenced =
                          IF instances[i].id \in referencedIds THEN "true" ELSE "false"]],
            stmts |-> <<Statement("union", IsReferencedExecCtx(client))>>,
            queries |-> Cardinality(related)]
\* one finished operation of the scenario
LinkOp(op, model, client, input, out, stmts, queries, before, related) ==
  [op |-> op, model |-> model, client |-> client, input |-> input, out |-> out,
   stmts |-> stmts, queries |-> queries, before |-> before, related |-> related]
NoLinkOp == LinkOp("none", "none", 0, <<>>, <<>>, <<>>, 0, <<>>, {})
\* the extenders the application registered before link, on the class or its parent
Presets ==
  { [c \in LinkClasses |-> [own |-> FALSE, fns |-> NoFns]],
    [c \in LinkClasses |-> [own |-> c = "Fedora", fns |-> IF c = "Fedora" THEN Custom({"existing"}) ELSE NoFns]],
    [c \in LinkClasses |-> [own |-> c = "User", fns |-> IF c = "User" THEN Custom({"existing"}) ELSE NoFns]],
    [c \in LinkClasses |-> [own |-> c = "Manager", fns |-> IF c = "Manager" THEN Custom({"hat"}) ELSE NoFns]],
    [c \in LinkClasses |-> [own |-> c = "Hat", fns |-> IF c = "Hat" THEN Custom({"isReferenced"}) ELSE NoFns]] }
Linked(reg) == \E m \in Linkable : reg[m].own /\ "isReferenced" \in {reg[m].fns[n] : n \in ExtNames}
InitLink ==
  /\ registry \in Presets
  /\ references \in Schemas
  /\ tables = [hats |-> {}, users |-> {}, orders |-> {}, groups |-> {}]
  /\ cached = {}
  /\ lop = NoLinkOp
  /\ NoDb /\ NoExt /\ NoSave /\ NoKeys
  /\ listener = "none"
  /\ eret = [st |-> "none", v |-> "none"] /\ eres = [st |-> "none", v |-> "none"]
\* link({models, ctx}), once, on classes that all have a db and a table
Link ==
  \E models \in SUBSET Linkable : \E client \in CtxClients :
    /\ ~Linked(registry)
    /\ registry' = LinkAll(registry, models, references, models)
    /\ lop' = LinkOp("link", "none", client, <<>>, <<>>,
                     getReferences(models, LinkCtx(client)), 0, registry, {})
    /\ UNCHANGED <<references, tables, cached, listener, dbvars, extvars, savevars, keyvars>>
\* the statements of instance.save(ctx): the columns when missing, then the write
SaveStatements(model, client) ==
  (IF model \in cached THEN <<>> ELSE <<Statement("columns", RefreshColumnsCtx(client))>>)
    \o <<Statement("write", SaveExecCtx(client))>>
\* new Fedora({id}).save(ctx)
SaveFedora ==
  \E id \in HatIds : \E client \in CtxClients :
    /\ tables' = [tables EXCEPT !.hats = @ \cup {id}]
    /\ cached' = cached \cup {"Fedora"}
    /\ lop' = LinkOp("save", "Fedora", client, <<fromRow(id, Null)>>, <<fromRow(id, Null)>>,
                     SaveStatements("Fedora", client), 0, <<>>, {})
    /\ UNCHANGED <<registry, references, listener, dbvars, extvars, savevars, keyvars>>
\* new Manager({hatId}).save(ctx): the foreign key, where there is one, wants the hat
SaveManager ==
  \E hatId \in HatIds : \E client \in CtxClients :
    /\ hatId \in tables.hats
    /\ tables' = [tables EXCEPT !.users = @ \cup {hatId}]
    /\ cached' = cached \cup {"Manager"}
    /\ lop' = LinkOp("save", "Manager", client, <<fromRow(Null, hatId)>>, <<fromRow(Null, hatId)>>,
                     SaveStatements("Manager", client), 0, <<>>, {})
    /\ UNCHANGED <<registry, references, listener, dbvars, extvars, savevars, keyvars>>
\* manager.delete(ctx) of the managers wearing a hat, fedora.delete(ctx) of a free hat
DeleteInstance ==
  \E model \in Linkable : \E id \in HatIds : \E client \in CtxClients :
    /\ IF model = "Fedora"
       THEN /\ id \in tables.hats /\ id \notin tables.users \cup tables.orders
            /\ tables' = [tables EXCEPT !.hats = @ \ {id}]
       ELSE /\ id \in tables.users
            /\ tables' = [tables EXCEPT !.users = @ \ {id}]
    /\ lop' = LinkOp("delete", model, client, <<>>, <<>>,
                     <<Statement("write", DeleteExecCtx(client))>>, 0, <<>>, {})
    /\ UNCHANGED <<registry, references, cached, listener, dbvars, extvars, savevars, keyvars>>
\* a row of orders, a table without a model, starts or stops referring to a hat
OrderWritten ==
  \E id \in HatIds :
    /\ OrdersHat \in references
    /\ id \in tables.hats
    /\ tables' = [tables EXCEPT !.orders = IF id \in @ THEN @ \ {id} ELSE @ \cup {id}]
    /\ lop' = NoLinkOp
    /\ UNCHANGED <<registry, references, cached, listener, dbvars, extvars, savevars, keyvars>>
\* Model.extend(instances, [property], ctx) reaching a synthesized extender
ExtendReference ==
  \E instances \in Managers : \E client \in CtxClients :
    /\ Visible(registry, "Manager")["hat"] = "reference"
    /\ LET r == ReferenceExtender(instances, ExtenderCtx(client), tables)
       IN  lop' = LinkOp("hat", "Manager", client, instances, r.out, r.stmts, 0, <<>>, {})
    /\ UNCHANGED <<registry, references, tables, cached, listener, dbvars, extvars, savevars, keyvars>>
ExtendIsReferenced ==
  \E model \in Linkable : \E client \in CtxClients :
    \E instances \in IF model = "Fedora" THEN Fedoras ELSE {<<>>, <<fromRow(1, Null)>>} :
      /\ Visible(registry, model)["isReferenced"] = "isReferenced"
      /\ LET related == Incoming(references, model)
             r == isReferencedExtender(instances, ExtenderCtx(client), tables, related)
         IN  lop' = LinkOp("isReferenced", model, client, instances, r.out, r.stmts,
                           r.queries, <<>>, related)
      /\ UNCHANGED <<registry, references, tables, cached, listener, dbvars, extvars, savevars, keyvars>>
\* Manager.find({extend: ['hat']}, ctx): the select, then the extend chain on its rows
RECURSIVE FromRows(_)
FromRows(hatIds) ==
  IF hatIds = {} THEN <<>>
  ELSE LET h == CHOOSE x \in hatIds : \A y \in hatIds : x <= y
       IN  <<fromRow(Null, h)>> \o FromRows(hatIds \ {h})
FindExtended ==
  \E client \in CtxClients :
    /\ Visible(registry, "Manager")["hat"] = "reference"
    /\ LET instances == FromRows(tables.users)
           r == ReferenceExtender(instances, ExtenderCtx(FindExtendCtx(client)), tables)
       IN  lop' = LinkOp("find", "Manager", client, <<>>, r.out,
                         <<Statement("select", FindExecCtx(client))>> \o r.stmts, 0, <<>>, {})
    /\ UNCHANGED <<registry, references, tables, cached, listener, dbvars, extvars, savevars, keyvars>>
NextLink ==
  \/ Link
  \/ SaveFedora
  \/ SaveManager
  \/ DeleteInstance
  \/ OrderWritten
  \/ ExtendReference
  \/ ExtendIsReferenced
  \/ FindExtended
SpecLink == InitLink /\ [][NextLink]_vars

\* ---------------------------------------------------------------------------
\* Claims about the relationship linker
\* ---------------------------------------------------------------------------
\* C21: after link completes, every extender that a model had before link ran,
\* its own or an inherited one, is still there under the same name with the
\* same function: link only adds entries and never replaces one.
C21_ExistingPreserved ==
  lop.op = "link" =>
    \A model \in Linkable : \A n \in ExtNames :
      Visible(lop.before, model)[n] # "none" =>
        Visible(registry, model)[n] = Visible(lop.before, model)[n]
\* the same for the extenders whose name link does not synthesize
C21_OtherNamesPreserved ==
  lop.op = "link" =>
    \A model \in Linkable : \A n \in ExtNames :
      (Visible(lop.before, model)[n] # "none" /\ Visible(registry, model)[n] \notin {"reference", "isReferenced"}) =>
        Visible(registry, model)[n] = Visible(lop.before, model)[n]

\* what the tables say: the ids that some row of a table with a foreign key to
\* the table of the model holds
ReferencedNow(model) == Referencing(tables, Incoming(references, model))
\* C22: after isReferenced ran on a non-empty list, every instance has a boolean
\* isReferenced that is true exactly when some row of a referencing table holds
\* the instance's id at the time of the query.
C22_IsReferencedIff ==
  (lop.op = "isReferenced" /\ lop.input # <<>>) =>
    \A i \in DOMAIN lop.out :
      /\ lop.out[i].isReferenced \in {"true", "false"}
      /\ lop.out[i].isReferenced = "true" <=> lop.out[i].id \in ReferencedNow(lop.model)
\* the same for the instances whose id is not 0
C22_IffForTruthyIds ==
  (lop.op = "isReferenced" /\ lop.input # <<>>) =>
    \A i \in DOMAIN lop.out :
      /\ lop.out[i].isReferenced \in {"true", "false"}
      /\ lop.out[i].id # 0 =>
           (lop.out[i].isReferenced = "true" <=> lop.out[i].id \in ReferencedNow(lop.model))
C22_TruthyWitness ==
  /\ lop.op = "isReferenced" /\ Len(lop.out) = 2
  /\ lop.out[1].isReferenced = "true" /\ lop.out[2].isReferenced = "false"
  /\ lop.out[2].id = Null

\* C23: isReferenced executes no statement when the model has no incoming
\* reference or no id is collectible, and leaves every instance false; it never
\* executes a UNION of zero queries; in every other case it executes exactly one
\* statement.
C23_NoEmptyUnion ==
  lop.op = "isReferenced" =>
    LET ids == Collected({lop.input[i].id : i \in DOMAIN lop.input})
    IN  /\ (lop.related = {} \/ ids = {}) =>
              /\ lop.stmts = <<>>
              /\ \A i \in DOMAIN lop.out : lop.out[i].isReferenced = "false"
        /\ \A k \in DOMAIN lop.stmts : lop.stmts[k].stmt = "union" /\ lop.queries >= 1
        /\ (lop.related # {} /\ ids # {}) => Len(lop.stmts) = 1
C23_Witness ==
  /\ lop.op = "isReferenced" /\ lop.model = "Fedora" /\ lop.related = {}
  /\ Len(lop.input) = 2 /\ lop.input[1].id = 1
  /\ lop.stmts = <<>>
  /\ \A i \in DOMAIN lop.out : lop.out[i].isReferenced = "false"
C23_WitnessOne ==
  /\ lop.op = "isReferenced" /\ Len(lop.input) = 2 /\ Len(lop.stmts) = 1
  /\ lop.queries = 2

\* C24: one invocation of a reference extender executes at most one query, none
\* for an empty list or when no foreign-key value is collectible; afterwards an
\* instance whose foreign key is non-null and matches a row of the referenced
\* table has the property set to that row's instance, every other instance has
\* it unset.
C24_ReferenceResolved ==
  lop.op = "hat" =>
    /\ Len(lop.stmts) <= 1
    /\ (\A i \in DOMAIN lop.input : lop.input[i].hatId = Null) => lop.stmts = <<>>
    /\ \A i \in DOMAIN lop.out :
         lop.out[i].hat =
           IF lop.out[i].hatId # Null /\ lop.out[i].hatId \in tables.hats
           THEN lop.out[i].hatId ELSE Null
\* the same for the instances whose foreign key is not 0
C24_ResolvedForTruthyIds ==
  lop.op = "hat" =>
    /\ Len(lop.stmts) <= 1
    /\ (\A i \in DOMAIN lop.input : lop.input[i].hatId = Null) => lop.stmts = <<>>
    /\ \A i \in DOMAIN lop.out :
         lop.out[i].hatId # 0 =>
           lop.out[i].hat =
             IF lop.out[i].hatId # Null /\ lop.out[i].hatId \in tables.hats
             THEN lop.out[i].hatId ELSE Null
C24_TruthyWitness ==
  /\ lop.op = "hat" /\ Len(lop.out) = 2 /\ Len(lop.stmts) = 1
  /\ lop.out[1].hat = 1 /\ lop.out[2].hatId = Null /\ lop.out[2].hat = Null

\* C28: a Model operation invoked with a ctx that carries client executes all of
\* its statements on that client (the column refresh of save, the extend chain
\* of find and the queries of the synthesized extenders included) and takes no
\* other connection from the pool, so that inside a transaction holding the
\* only connection of the pool no statement waits for a second one.
C28_CtxThreaded ==
  lop.client # 0 =>
    \A k \in DOMAIN lop.stmts :
      lop.stmts[k].conn = lop.client /\ ~lop.stmts[k].acquired
C28_Witness ==
  /\ lop.op = "save" /\ lop.client = 1
  /\ Len(lop.stmts) = 2 /\ lop.stmts[1].stmt = "columns" /\ lop.stmts[1].conn = 1
  /\ lop.stmts[2].stmt = "write" /\ lop.stmts[2].conn = 1
C28_WitnessFind ==
  /\ lop.op = "find" /\ lop.client = 1
  /\ Len(lop.stmts) = 2 /\ lop.stmts[2].stmt = "find" /\ lop.stmts[2].conn = 1
C28_WitnessExtender ==
  /\ lop.op = "isReferenced" /\ lop.client = 1
  /\ Len(lop.stmts) = 1 /\ lop.stmts[1].conn = 1 /\ ~lop.stmts[1].acquired

====
